---- MODULE Spec2Model ----
(***************************************************************************)
(* A model of the stOTTRs mapping engine and its columnar triple store:    *)
(* Mapping::expand and the recursive template expansion (mapping.rs), the  *)
(* Triplestore with its per-bucket uniqueness flags, lazy deduplication    *)
(* and optional spill folder (triplestore.rs), and the SPARQL entry points *)
(* query / construct_update (triplestore/sparql.rs).                       *)
(***************************************************************************)
EXTENDS Integers, Sequences, FiniteSets, TLC

VARIABLES
    caching_folder,     \* Triplestore.caching_folder: "None" or the folder
    deduplicated,       \* Triplestore.deduplicated
    df_map,             \* Triplestore.df_map: (predicate, object type) -> TripleTable
    files,              \* the spill folder: path -> DataFrame of each existing file
    next_path,          \* Uuid::new_v4() of spill file names: number minted so far
    next_uuid,          \* Uuid::new_v4() of call_uuid: number minted so far
    template_dataset,   \* Mapping.template_dataset
    last,               \* the last call: operation, arguments, result
    ops,                \* number of adding calls made so far
    io_failures,        \* number of calls in which the environment failed an operation
    contributed         \* per bucket: every batch ever installed into it (history)

vars == <<caching_folder, deduplicated, df_map, files, next_path, next_uuid,
          template_dataset, last, ops, io_failures, contributed>>

(***************************************************************************)
(* Bounds of the model.                                                    *)
(***************************************************************************)
MaxCalls == 2     \* calls that add triples: expand, construct_update

MaxIOFailures == 1     \* calls in which an input/output operation fails

MaxHangPasses == 3     \* passes of a chunk loop that never ends, looked at from outside

MaxNameLen == 3     \* characters of a template name handed to resolve_template

(***************************************************************************)
(* Program constants.                                                      *)
(***************************************************************************)
PARQUET_FILE_SIZE == 50000000
CHUNK_BYTES == 50000000

Null == "null"
None == "None"

(***************************************************************************)
(* Sequence helpers.                                                       *)
(***************************************************************************)
Range(s) == {s[i] : i \in 1..Len(s)}

Min(a, b) == IF a <= b THEN a ELSE b

Max(a, b) == IF a >= b THEN a ELSE b

RECURSIVE flatten(_)
flatten(nested) ==
    IF nested = <<>> THEN <<>> ELSE Head(nested) \o flatten(Tail(nested))

RECURSIVE SeqsUpTo(_, _)
SeqsUpTo(S, n) ==
    IF n = 0 THEN {<<>>}
    ELSE LET shorter == SeqsUpTo(S, n - 1)
         IN  shorter \cup {Append(q, x) : q \in {r \in shorter : Len(r) = n - 1}, x \in S}

(***************************************************************************)
(* DataFrame: named columns and positional rows; a row maps each column    *)
(* name to a cell, Null for a missing value.                               *)
(***************************************************************************)
DataFrame(cols, rows) == [cols |-> cols, rows |-> rows]

height(df) == Len(df.rows)

\* a frame has no height apart from its columns: one of no column has no row
select(df, cols) ==
    IF cols = <<>> THEN DataFrame(<<>>, <<>>)
    ELSE DataFrame(cols, [i \in 1..Len(df.rows) |-> [c \in Range(cols) |-> df.rows[i][c]]])

\* the height after with_column of literals: a literal added to a frame of
\* no column is a series of length 1
LiteralHeight(df, literals) ==
    IF df.cols = <<>> /\ literals THEN 1 ELSE Len(df.rows)

drop_nulls(df) ==
    LET NoNull(r) == \A c \in DOMAIN r : r[c] # Null
    IN  DataFrame(df.cols, SelectSeq(df.rows, NoNull))

\* drop_nulls(Some(subset)): the rows with no null in the columns of the subset
drop_nulls_subset(df, subset) ==
    LET NoNull(r) == \A c \in Range(subset) : r[c] # Null
    IN  DataFrame(df.cols, SelectSeq(df.rows, NoNull))

\* A cell of a list column is the sequence of its elements.  Exploded, an
\* empty list gives one null element.
Elements(cell) == IF cell = <<>> THEN <<Null>> ELSE cell

\* explode(columns): one row per element of the named list columns, taken
\* together position by position, the other cells repeated; polars reports a
\* shape mismatch when the columns' element counts differ, and an error for
\* a column the frame does not have
explode(df, columns) ==
    LET Count(r) == Len(Elements(r[columns[1]]))
        Exploded(r) ==
            [k \in 1..Count(r) |->
                [c \in DOMAIN r |-> IF c \in Range(columns) THEN Elements(r[c])[k] ELSE r[c]]]
    IN  IF columns = <<>> THEN [ok |-> TRUE, df |-> df]
        ELSE IF \E c \in Range(columns) : c \notin Range(df.cols)
        THEN [ok |-> FALSE, df |-> df]
        ELSE IF \E n \in 1..Len(df.rows) : \E c \in Range(columns) :
                   Len(Elements(df.rows[n][c])) # Count(df.rows[n])
        THEN [ok |-> FALSE, df |-> df]
        ELSE [ok |-> TRUE,
              df |-> DataFrame(df.cols,
                               flatten([n \in 1..Len(df.rows) |-> Exploded(df.rows[n])]))]

\* unique(None, UniqueKeepStrategy::First): the first occurrence of each row
RECURSIVE UniqueRows(_)
UniqueRows(rows) ==
    IF rows = <<>> THEN <<>>
    ELSE LET init == UniqueRows(SubSeq(rows, 1, Len(rows) - 1))
             r == rows[Len(rows)]
         IN  IF r \in Range(init) THEN init ELSE Append(init, r)

unique(df) == DataFrame(df.cols, UniqueRows(df.rows))

\* concat(lfs, rechunk, parallel) of frames of one schema
concat(dfs) ==
    DataFrame(dfs[1].cols, flatten([i \in 1..Len(dfs) |-> dfs[i].rows]))

\* DataFrame::with_column of a series that holds one value in every row
with_column(df, name, value) ==
    DataFrame(IF name \in Range(df.cols) THEN df.cols ELSE Append(df.cols, name),
              [i \in 1..Len(df.rows) |->
                  [c \in Range(df.cols) \cup {name} |->
                      IF c = name THEN value ELSE df.rows[i][c]]])

\* DataFrame::slice(offset, length)
slice(df, offset, length) ==
    DataFrame(df.cols, SubSeq(df.rows, offset + 1, Min(Len(df.rows), offset + length)))

\* partition_by(["verb"]): one frame per distinct verb, in order of first occurrence
partition_by(df, col) ==
    LET keys == UniqueRows([i \in 1..Len(df.rows) |-> df.rows[i][col]])
    IN  [k \in 1..Len(keys) |->
            LET Same(r) == r[col] = keys[k]
            IN  DataFrame(df.cols, SelectSeq(df.rows, Same))]

HasDuplicate(rows) == \E i, j \in 1..Len(rows) : i < j /\ rows[i] = rows[j]

(***************************************************************************)
(* RDFNodeType, Option, and the records of triplestore.rs.                 *)
(***************************************************************************)
XSD_STRING == "xsd:string"

IRI == [kind |-> "IRI", dt |-> None]

Literal(dt) == [kind |-> "Literal", dt |-> dt]

Some(v) == [some |-> TRUE, v |-> v]

NoneV == [some |-> FALSE, v |-> <<>>]

TripleTable(dfs, df_paths, unique_, call_uuid) ==
    [dfs |-> dfs, df_paths |-> df_paths, unique |-> unique_, call_uuid |-> call_uuid]

TriplesToAdd(df, object_type, language_tag, static_verb_column, has_unique_subset) ==
    [df |-> df, object_type |-> object_type, language_tag |-> language_tag,
     static_verb_column |-> static_verb_column, has_unique_subset |-> has_unique_subset]

TripleDF(df, predicate, object_type) ==
    [df |-> df, predicate |-> predicate, object_type |-> object_type]

\* the key of df_map: HashMap<String, HashMap<RDFNodeType, TripleTable>>
Key(predicate, object_type) == <<predicate, object_type>>

(***************************************************************************)
(* The store as a value: the fields of Triplestore, the spill folder, and  *)
(* the input/output operations of the running call (io counts the reads,  *)
(* removals and writes; io_fail names the one that fails, if any).         *)
(*                                                                         *)
(* The source leaves two Results unread: add_triples_df drops the Result   *)
(* of add_triples_df_with_folder (triplestore.rs 157), so add_triples_vec  *)
(* returns () whether or not a spill file was written, and query does not  *)
(* read what self.deduplicate() returns (sparql.rs 34).                    *)
(***************************************************************************)
Triplestore_new(folder) ==
    [caching_folder |-> folder, deduplicated |-> TRUE, df_map |-> <<>>,
     files |-> <<>>, next_path |-> 0, contributed |-> <<>>,
     io |-> [read |-> 0, remove |-> 0, write |-> 0], io_fail |-> [kind |-> "none", n |-> 0]]

IOFails(st, kind, i) == st.io_fail.kind = kind /\ st.io_fail.n = st.io[kind] + i

(***************************************************************************)
(* Results of the fallible steps: Ok, Err (an error value returned to the  *)
(* caller) or Panic (unwrap / panic! / todo!).                             *)
(***************************************************************************)
Ok(v) == [kind |-> "Ok", v |-> v, err |-> None]

Err(e) == [kind |-> "Err", v |-> <<>>, err |-> e]

Panic == [kind |-> "Panic", v |-> <<>>, err |-> None]

\* TripleTable::len (44-52): a table with neither batches nor paths panics
TripleTable_len(v) ==
    IF v.dfs.some THEN Len(v.dfs.v)
    ELSE IF v.df_paths.some THEN Len(v.df_paths.v)
    ELSE Panic

\* TripleTable::get_df (54-62), idx counted from 0: the batch, or the spill
\* file read back; unwrap panics on an index past the end, read_parquet
\* fails on a file that is gone
get_df(st, v, idx) ==
    IF v.dfs.some
    THEN IF idx < Len(v.dfs.v) THEN Ok(v.dfs.v[idx + 1]) ELSE Panic
    ELSE IF v.df_paths.some
    THEN IF idx >= Len(v.df_paths.v) THEN Panic
         ELSE IF v.df_paths.v[idx + 1] \notin DOMAIN st.files THEN Err("ReadParquetError")
         ELSE Ok(st.files[v.df_paths.v[idx + 1]])
    ELSE Panic

\* What is left of a bucket: the frames get_df returns for its indices, in
\* order; a path whose file is gone contributes none.
BucketFrames(st, v) ==
    LET n == IF v.dfs.some \/ v.df_paths.some THEN TripleTable_len(v) ELSE 0
        Readable(i) == get_df(st, v, i - 1).kind = "Ok"
        idx == SelectSeq([i \in 1..n |-> i], Readable)
    IN  [i \in 1..Len(idx) |-> get_df(st, v, idx[i] - 1).v]

BucketRows(st, v) ==
    LET fs == BucketFrames(st, v) IN flatten([i \in 1..Len(fs) |-> fs[i].rows])

(***************************************************************************)
(* prepare_triples_df and prepare_triples (triplestore.rs 272-373).        *)
(***************************************************************************)
prepare_triples_df(df, predicate, object_type, language_tag, has_unique_subset) ==
    LET nonnull == drop_nulls(df)
        uniq == IF ~has_unique_subset THEN unique(nonnull) ELSE nonnull
        lt_ser == IF language_tag # None THEN language_tag ELSE Null
        tagged == IF object_type = Literal(XSD_STRING)
                  THEN with_column(uniq, "language_tag", lt_ser)
                  ELSE uniq
    IN  IF height(nonnull) = 0 THEN NoneV
        ELSE Some(TripleDF(tagged, predicate, object_type))

\* [panic, v]: panic when a verb cell is not a string (line 304)
prepare_triples(df, object_type, language_tag, static_verb_column, has_unique_subset) ==
    LET Static(tdf) == [panic |-> FALSE, v |-> IF tdf.some THEN <<tdf.v>> ELSE <<>>]
        IsSome(o) == o.some
        Kept(kept) == [i \in 1..Len(kept) |-> kept[i].v]
        Dynamic(partitions) ==
            [panic |-> \E i \in 1..Len(partitions) : partitions[i].rows[1]["verb"] = Null,
             v |-> Kept(SelectSeq(
                      [i \in 1..Len(partitions) |->
                          prepare_triples_df(select(partitions[i], <<"subject", "object">>),
                              partitions[i].rows[1]["verb"], object_type, language_tag,
                              has_unique_subset)],
                      IsSome))]
    IN  IF height(df) = 0 THEN [panic |-> FALSE, v |-> <<>>]
        ELSE IF static_verb_column # None
        THEN Static(prepare_triples_df(select(df, <<"subject", "object">>),
                        static_verb_column, object_type, language_tag, has_unique_subset))
        ELSE Dynamic(partition_by(df, "verb"))

(***************************************************************************)
(* add_triples_df_without_folder (triplestore.rs 228-269).                 *)
(***************************************************************************)
Contribute(contrib, k, rows) ==
    IF k \in DOMAIN contrib
    THEN [contrib EXCEPT ![k] = @ \cup Range(rows)]
    ELSE (k :> Range(rows)) @@ contrib

\* InstallDf without line 243-245: a bucket that stops being unique leaves the
\* store's flag as it was
InstallDf_FlagKept(st, tdf, call_uuid) ==
    LET k == Key(tdf.predicate, tdf.object_type)
    IN  IF k \in DOMAIN st.df_map THEN
            [st EXCEPT !.df_map[k] = [@ EXCEPT !.dfs = Some(Append(@.v, tdf.df)),
                                               !.unique = @ /\ (call_uuid = st.df_map[k].call_uuid)],
                       !.contributed = Contribute(@, k, tdf.df.rows)]
        ELSE [st EXCEPT !.df_map = (k :> TripleTable(Some(<<tdf.df>>), NoneV, TRUE,
                                                     call_uuid)) @@ @,
                        !.contributed = Contribute(@, k, tdf.df.rows)]

InstallDf(st, tdf, call_uuid) ==
    LET k == Key(tdf.predicate, tdf.object_type)
    IN  IF k \in DOMAIN st.df_map THEN
            LET v == st.df_map[k]
                u == v.unique /\ (call_uuid = v.call_uuid)
            IN  [st EXCEPT !.df_map[k] = [v EXCEPT !.dfs = Some(Append(v.dfs.v, tdf.df)),
                                                   !.unique = u],
                           !.deduplicated = IF ~u THEN FALSE ELSE @,
                           !.contributed = Contribute(@, k, tdf.df.rows)]
        ELSE [st EXCEPT !.df_map = (k :> TripleTable(Some(<<tdf.df>>), NoneV, TRUE,
                                                     call_uuid)) @@ @,
                        !.contributed = Contribute(@, k, tdf.df.rows)]

RECURSIVE add_triples_df_without_folder(_, _, _)
add_triples_df_without_folder(st, triples_df, call_uuid) ==
    IF triples_df = <<>> THEN st
    ELSE add_triples_df_without_folder(InstallDf(st, Head(triples_df), call_uuid),
                                       Tail(triples_df), call_uuid)

(***************************************************************************)
(* add_triples_df_with_folder (triplestore.rs 163-226): every file is      *)
(* written first, then the paths are installed in order up to the first    *)
(* failed write.                                                           *)
(***************************************************************************)
\* InstallPath with the call_uuid of the batch not looked at
InstallPath_AnyCall(st, tdf, file_path, call_uuid) ==
    LET k == Key(tdf.predicate, tdf.object_type)
    IN  IF k \in DOMAIN st.df_map THEN
            [st EXCEPT !.df_map[k] = [@ EXCEPT !.df_paths = Some(Append(@.v, file_path))],
                       !.deduplicated = IF ~st.df_map[k].unique THEN FALSE ELSE @,
                       !.contributed = Contribute(@, k, tdf.df.rows)]
        ELSE [st EXCEPT !.df_map = (k :> TripleTable(NoneV, Some(<<file_path>>), TRUE,
                                                     call_uuid)) @@ @,
                        !.contributed = Contribute(@, k, tdf.df.rows)]

InstallPath(st, tdf, file_path, call_uuid) ==
    LET k == Key(tdf.predicate, tdf.object_type)
    IN  IF k \in DOMAIN st.df_map THEN
            LET v == st.df_map[k]
                u == v.unique /\ (call_uuid = v.call_uuid)
            IN  [st EXCEPT !.df_map[k] = [v EXCEPT !.df_paths = Some(Append(v.df_paths.v,
                                                                           file_path)),
                                                   !.unique = u],
                           !.deduplicated = IF ~u THEN FALSE ELSE @,
                           !.contributed = Contribute(@, k, tdf.df.rows)]
        ELSE [st EXCEPT !.df_map = (k :> TripleTable(NoneV, Some(<<file_path>>), TRUE,
                                                     call_uuid)) @@ @,
                        !.contributed = Contribute(@, k, tdf.df.rows)]

RECURSIVE InstallPaths(_, _, _, _, _)
InstallPaths(st, triples_df, paths, call_uuid, i) ==
    IF i > Len(triples_df) THEN [st |-> st, ok |-> TRUE]
    ELSE IF paths[i] \notin DOMAIN st.files THEN [st |-> st, ok |-> FALSE]
    ELSE InstallPaths(InstallPath(st, triples_df[i], paths[i], call_uuid),
                      triples_df, paths, call_uuid, i + 1)

\* write_parquet of every frame, each to a file named by a fresh uuid
WriteAll(st, dfs) ==
    LET n == Len(dfs)
        ok == {st.next_path + i : i \in {j \in 1..n : ~IOFails(st, "write", j)}}
    IN  [st |-> [st EXCEPT !.files = [p \in DOMAIN @ \cup ok |->
                                        IF p \in DOMAIN st.files THEN st.files[p]
                                        ELSE dfs[p - st.next_path]],
                           !.next_path = @ + n,
                           !.io.write = @ + n],
         paths |-> [i \in 1..n |-> st.next_path + i]]

add_triples_df_with_folder(st, triples_df, call_uuid) ==
    LET Written(w) == InstallPaths(w.st, triples_df, w.paths, call_uuid, 1)
    IN  Written(WriteAll(st, [i \in 1..Len(triples_df) |-> triples_df[i].df]))

\* add_triples_df (155-161): the store after the call; the Result of the
\* spill branch is dropped at line 157
add_triples_df(st, triples_df, call_uuid) ==
    IF st.caching_folder # None
    THEN add_triples_df_with_folder(st, triples_df, call_uuid).st
    ELSE add_triples_df_without_folder(st, triples_df, call_uuid)

\* add_triples_vec (130-153): [st, panic]
add_triples_vec(st, ts, call_uuid) ==
    LET Added(a) == [st |-> a, panic |-> FALSE]
        Prepared(prepared) ==
            IF \E i \in 1..Len(ts) : prepared[i].panic
            THEN [st |-> st, panic |-> TRUE]
            ELSE Added(add_triples_df(st, flatten([i \in 1..Len(ts) |-> prepared[i].v]),
                                      call_uuid))
    IN  Prepared([i \in 1..Len(ts) |->
                     prepare_triples(ts[i].df, ts[i].object_type, ts[i].language_tag,
                                     ts[i].static_verb_column, ts[i].has_unique_subset)])

(***************************************************************************)
(* deduplicate (triplestore.rs 95-128).                                    *)
(***************************************************************************)
\* self.split_write_df: the frame re-sharded into nshards files of
\* consecutive rows, one fresh uuid per file
split_write_df(st, df, nshards) ==
    LET n == Min(nshards, height(df))
        size == (height(df) + n - 1) \div n
        Written(w) == [st |-> w.st, paths |-> w.paths,
                       ok |-> \A i \in 1..Len(w.paths) : w.paths[i] \in DOMAIN w.st.files]
    IN  Written(WriteAll(st, [i \in 1..n |-> slice(df, (i - 1) * size, size)]))

\* DeduplicateInMemory with the batches drained and nothing pushed back
DeduplicateInMemory_Drained(st, k) ==
    [st |-> [st EXCEPT !.df_map[k] = [@ EXCEPT !.dfs = Some(<<>>), !.unique = TRUE]],
     result |-> "Ok"]

\* DeduplicateInMemory with the batches concatenated and no row dropped
DeduplicateInMemory_Concat(st, k) ==
    [st |-> [st EXCEPT !.df_map[k] = [@ EXCEPT !.dfs = Some(<<concat(@.v)>>),
                                               !.unique = TRUE]],
     result |-> "Ok"]

\* lines 116-120
DeduplicateInMemory(st, k) ==
    [st |-> [st EXCEPT !.df_map[k] = [@ EXCEPT !.dfs = Some(<<unique(concat(@.v))>>),
                                               !.unique = TRUE]],
     result |-> "Ok"]

\* lines 101-114
DeduplicateSpill(st, k, nshards) ==
    LET paths == st.df_map[k].df_paths.v
        m == Len(paths)
        Written(w) ==
            IF ~w.ok THEN [st |-> w.st, result |-> "WriteParquetError"]
            ELSE [st |-> [w.st EXCEPT !.df_map[k] = [@ EXCEPT !.df_paths = Some(w.paths),
                                                              !.unique = TRUE]],
                  result |-> "Ok"]
        Removed(st2, removed) ==
            IF removed # 1..m THEN [st |-> st2, result |-> "RemoveParquetFileError"]
            ELSE Written(split_write_df(st2,
                     unique(concat([i \in 1..m |-> st.files[paths[i]]])), nshards))
        Read(st1) ==
            Removed([st1 EXCEPT !.files = [p \in DOMAIN @ \ {paths[i] : i \in
                                              {j \in 1..m : ~IOFails(st1, "remove", j)}} |-> @[p]],
                                !.io.remove = @ + m],
                    {j \in 1..m : ~IOFails(st1, "remove", j) /\ paths[j] \in DOMAIN st1.files})
    IN  IF \E i \in 1..m : IOFails(st, "read", i) \/ paths[i] \notin DOMAIN st.files
        THEN [st |-> [st EXCEPT !.io.read = @ + m], result |-> "ReadParquetError"]
        ELSE Read([st EXCEPT !.io.read = @ + m])

\* DeduplicateBucket without the test of line 99: every bucket is rewritten
DeduplicateBucket_Always(st, k, nshards) ==
    IF st.caching_folder # None
    THEN DeduplicateSpill(st, k, nshards)
    ELSE DeduplicateInMemory(st, k)

\* the body of the loops over df_map, lines 99-122
DeduplicateBucket(st, k, nshards) ==
    IF ~st.df_map[k].unique THEN
        IF st.caching_folder # None
        THEN DeduplicateSpill(st, k, nshards)
        ELSE DeduplicateInMemory(st, k)
    ELSE [st |-> st, result |-> "Ok"]

RECURSIVE DeduplicateLoop(_, _, _)
DeduplicateLoop(st, order, nshards) ==
    LET Then(r) == IF r.result # "Ok" THEN r
                   ELSE DeduplicateLoop(r.st, Tail(order), nshards)
    IN  IF order = <<>> THEN [st |-> [st EXCEPT !.deduplicated = TRUE], result |-> "Ok"]
        ELSE Then(DeduplicateBucket(st, Head(order), nshards))

\* order: the order in which the two nested HashMap iterations visit the buckets
deduplicate(st, order, nshards) == DeduplicateLoop(st, order, nshards)

\* The orders a HashMap of HashMaps can be visited in: the buckets of one
\* predicate are visited together.
Orders(keys) ==
    LET n == Cardinality(keys)
    IN  {o \in [1..n -> keys] :
            /\ \A i, j \in 1..n : i # j => o[i] # o[j]
            /\ \A i, j, l \in 1..n : (i < j /\ j < l /\ o[i][1] = o[l][1]) => o[j][1] = o[i][1]}

(***************************************************************************)
(* Strings that are split or concatenated are sequences of characters.     *)
(***************************************************************************)
RECURSIVE split(_, _)
split(s, sep) ==
    IF \E i \in 1..Len(s) : s[i] = sep
    THEN LET i == CHOOSE j \in 1..Len(s) : s[j] = sep /\ \A l \in 1..(j - 1) : s[l] # sep
         IN  <<SubSeq(s, 1, i - 1)>> \o split(SubSeq(s, i + 1, Len(s)), sep)
    ELSE <<s>>

RECURSIVE join(_, _)
join(parts, sep) ==
    IF parts = <<>> THEN <<>>
    ELSE IF Len(parts) = 1 THEN parts[1]
    ELSE parts[1] \o <<sep>> \o join(Tail(parts), sep)

(***************************************************************************)
(* The template AST (crate::ast) and the dataset (crate::templates).       *)
(***************************************************************************)
Variable(name) == [kind |-> "Variable", name |-> name, ct |-> None]

ConstantIRI(value) == [kind |-> "Constant", lit |-> "IRI", value |-> value, dt |-> None]

ConstantLiteral(value, dt) == [kind |-> "Constant", lit |-> "Literal", value |-> value, dt |-> dt]

ConstantTerm(ct) == [kind |-> "ConstantTerm", name |-> None, ct |-> ct]

Argument(list_expand, term) == [list_expand |-> list_expand, term |-> term]

Instance(list_expander, template_name, argument_list) ==
    [list_expander |-> list_expander, template_name |-> template_name,
     argument_list |-> argument_list]

Parameter(name, ptype) == [stottr_variable |-> name, ptype |-> ptype]

Template(template_name, parameter_list, pattern_list) ==
    [signature |-> [template_name |-> template_name, parameter_list |-> parameter_list],
     pattern_list |-> pattern_list]

Arg(term) == Argument(FALSE, term)

OTTR_TRIPLE == <<"n", ":", "t">>

\* TemplateDataset::get: the template of that name, if any
get(ds, name) ==
    LET Named(t) == t.signature.template_name = name
        found == SelectSeq(ds.templates, Named)
    IN  IF found = <<>> THEN NoneV ELSE Some(found[1])

(***************************************************************************)
(* Mapping::resolve_template (mapping.rs 180-201).                         *)
(***************************************************************************)
\* resolve_template that asks the prefix map before it tries the name as it is
resolve_template_PrefixFirst(ds, s) ==
    LET split_colon == split(s, ":")
        possible_template_name ==
            ds.prefix_map[split_colon[1]] \o join(Tail(split_colon), ":")
    IN  IF split_colon[1] \in DOMAIN ds.prefix_map THEN
            IF get(ds, possible_template_name).some
            THEN [ok |-> TRUE, template |-> get(ds, possible_template_name).v,
                  err |-> None, name |-> possible_template_name]
            ELSE [ok |-> FALSE, template |-> None,
                  err |-> "NoTemplateForTemplateNameFromPrefix",
                  name |-> possible_template_name]
        ELSE IF get(ds, s).some
        THEN [ok |-> TRUE, template |-> get(ds, s).v, err |-> None, name |-> s]
        ELSE [ok |-> FALSE, template |-> None, err |-> "TemplateNotFound", name |-> s]

resolve_template(ds, s) ==
    IF get(ds, s).some THEN [ok |-> TRUE, template |-> get(ds, s).v, err |-> None, name |-> s]
    ELSE
        LET split_colon == split(s, ":")
            prefix == split_colon[1]
            possible_template_name == ds.prefix_map[prefix] \o join(Tail(split_colon), ":")
        IN  IF prefix \in DOMAIN ds.prefix_map THEN
                IF get(ds, possible_template_name).some
                THEN [ok |-> TRUE, template |-> get(ds, possible_template_name).v,
                      err |-> None, name |-> possible_template_name]
                ELSE [ok |-> FALSE, template |-> None,
                      err |-> "NoTemplateForTemplateNameFromPrefix",
                      name |-> possible_template_name]
            ELSE [ok |-> FALSE, template |-> None, err |-> "TemplateNotFound", name |-> s]

\* The outcome of tasks run in a parallel map and then read in order with `?`:
\* a panic in any task unwinds; otherwise the first error in order is returned.
Collected(results) ==
    IF \E i \in 1..Len(results) : results[i].kind = "Panic" THEN Panic
    ELSE IF \E i \in 1..Len(results) : results[i].kind = "Err"
    THEN results[CHOOSE i \in 1..Len(results) :
                    /\ results[i].kind = "Err"
                    /\ \A j \in 1..(i - 1) : results[j].kind # "Err"]
    ELSE Ok([i \in 1..Len(results) |-> results[i].v])

PrimitiveColumn(rdf_node_type, language_tag) ==
    [rdf_node_type |-> rdf_node_type, language_tag |-> language_tag]

StaticColumn(constant_term, ptype) == [constant_term |-> constant_term, ptype |-> ptype]

OTTRTripleInstance(df, dynamic_columns, static_columns, has_unique_subset) ==
    [df |-> df, dynamic_columns |-> dynamic_columns, static_columns |-> static_columns,
     has_unique_subset |-> has_unique_subset]

\* constant_to_expr: the cell and the type a constant lowers to
constant_to_expr(ct, ptype) ==
    [cell |-> ct.value,
     column |-> PrimitiveColumn(IF ct.lit = "IRI" THEN IRI ELSE Literal(ct.dt), None)]

\* get_variable_names (416-426)
get_variable_names(i) ==
    LET IsVar(a) == a.term.kind = "Variable"
        as == SelectSeq(i.argument_list, IsVar)
    IN  IF \E a \in Range(i.argument_list) : a.term.kind = "List" THEN Panic
        ELSE [j \in 1..Len(as) |-> as[j].term.name]

(***************************************************************************)
(* create_remapped (mapping.rs 495-623).                                   *)
(***************************************************************************)
\* what the loop over the zipped arguments and parameters builds up
RemapState ==
    [kind |-> "Ok", err |-> None, existing |-> <<>>, new |-> <<>>,
     new_dynamic_from_constant |-> <<>>, to_expand |-> <<>>, expressions |-> <<>>,
     new_dynamic_columns |-> <<>>, new_constant_columns |-> <<>>]

\* create_dynamic_expression_from_static (481-493): the expression, aliased to
\* the column name, and the column's type
create_dynamic_expression_from_static(column_name, constant_term, ptype) ==
    [expr |-> [name |-> column_name, cell |-> constant_to_expr(constant_term, ptype).cell],
     column |-> constant_to_expr(constant_term, ptype).column]

\* one turn of the loop, lines 518-559
RemapStep(acc, original, target, dynamic_columns, constant_columns) ==
    LET target_colname == target.stottr_variable
        term == original.term
        acc1 == IF original.list_expand
                THEN [acc EXCEPT !.to_expand = Append(@, target_colname)]
                ELSE acc
        Lowered(e) ==
            [acc1 EXCEPT !.expressions = Append(@, e.expr),
                         !.new_dynamic_columns = (target_colname :> e.column) @@ @,
                         !.new_dynamic_from_constant = Append(@, target_colname)]
    IN  IF acc.kind # "Ok" THEN acc
        ELSE IF term.kind = "Variable" THEN
            IF term.name \in DOMAIN dynamic_columns
            THEN [acc1 EXCEPT !.existing = Append(@, term.name),
                              !.new = Append(@, target_colname),
                              !.new_dynamic_columns =
                                  (target_colname :> dynamic_columns[term.name]) @@ @]
            ELSE IF term.name \in DOMAIN constant_columns
            THEN [acc1 EXCEPT !.new_constant_columns =
                                  (target_colname :> constant_columns[term.name]) @@ @]
            ELSE [acc1 EXCEPT !.kind = "Err", !.err = "UnknownVariableError"]
        ELSE IF term.kind = "ConstantTerm" THEN
            IF original.list_expand
            THEN Lowered(create_dynamic_expression_from_static(target_colname, term.ct,
                                                               target.ptype))
            ELSE [acc1 EXCEPT !.new_constant_columns =
                                  (target_colname :> StaticColumn(term.ct, target.ptype)) @@ @]
        ELSE [acc1 EXCEPT !.kind = "Panic"]

RECURSIVE RemapLoop(_, _, _, _, _, _)
RemapLoop(acc, argument_list, parameter_list, j, dynamic_columns, constant_columns) ==
    IF j > Min(Len(argument_list), Len(parameter_list)) THEN acc
    ELSE RemapLoop(RemapStep(acc, argument_list[j], parameter_list[j], dynamic_columns,
                             constant_columns),
                   argument_list, parameter_list, j + 1, dynamic_columns, constant_columns)

\* lines 560-575: rename existing to new, add the lowered constants, select
RemappedFrame(df, existing, new, expressions, out_cols) ==
    LET Cell(r, c) ==
            IF \E n \in 1..Len(new) : new[n] = c
            THEN r[existing[CHOOSE n \in 1..Len(new) : new[n] = c]]
            ELSE expressions[CHOOSE n \in 1..Len(expressions) :
                                /\ expressions[n].name = c
                                /\ \A m \in (n + 1)..Len(expressions) :
                                       expressions[m].name # c].cell
        Row(n) == IF n <= Len(df.rows) THEN df.rows[n] ELSE <<>>
    IN  IF out_cols = <<>> THEN DataFrame(<<>>, <<>>)
        ELSE DataFrame(out_cols,
                       [n \in 1..LiteralHeight(df, expressions # <<>>) |->
                           [c \in Range(out_cols) |-> Cell(Row(n), c)]])

\* lines 594-607: a unique subset survives when all its columns were renamed
NewUniqueSubsets(unique_subsets, existing, new) ==
    LET Survives(us) == \A x \in Range(us) : x \in Range(existing)
        Renamed(x) == new[CHOOSE e \in 1..Len(existing) :
                             /\ existing[e] = x
                             /\ \A f \in 1..(e - 1) : existing[f] # x]
        Subset(kept) == [n \in 1..Len(kept) |-> [m \in 1..Len(kept[n]) |-> Renamed(kept[n][m])]]
    IN  Subset(SelectSeq(unique_subsets, Survives))

\* lines 583-587: Cross explodes the columns one after the other
RECURSIVE ExplodeEach(_, _)
ExplodeEach(df, columns) ==
    IF columns = <<>> THEN [ok |-> TRUE, df |-> df]
    ELSE LET Rest(e) == IF e.ok THEN ExplodeEach(e.df, Tail(columns)) ELSE e
         IN  Rest(explode(df, <<Head(columns)>>))

\* ZipMin that explodes without dropping the rows with a null
ListExpand_ZipMinKeepsNulls(list_expander, to_expand, df) ==
    IF list_expander = None THEN [ok |-> TRUE, df |-> df]
    ELSE IF list_expander = "Cross" THEN ExplodeEach(df, to_expand)
    ELSE explode(df, to_expand)

\* lines 580-596: the frame after the instance's list expander
ListExpand(list_expander, to_expand, df) ==
    LET Trimmed(e) == IF e.ok THEN [ok |-> TRUE, df |-> drop_nulls_subset(e.df, to_expand)]
                      ELSE e
    IN  IF list_expander = None THEN [ok |-> TRUE, df |-> df]
        ELSE IF list_expander = "Cross" THEN ExplodeEach(df, to_expand)
        ELSE IF list_expander = "ZipMin" THEN Trimmed(explode(df, to_expand))
        ELSE explode(df, to_expand)

\* create_remapped that hands the renamed subsets on under a list expander too
SurvivingSubsets_UnderExpander(list_expander, unique_subsets, existing, new) ==
    NewUniqueSubsets(unique_subsets, existing, new)

\* lines 579-580, 597-610: no subset is handed on under a list expander
SurvivingSubsets(list_expander, unique_subsets, existing, new) ==
    IF list_expander # None THEN <<>>
    ELSE NewUniqueSubsets(unique_subsets, existing, new)

\* lines 560-622, after the loop; the lazy frame is collected with unwrap
RemapFinish(instance, df, unique_subsets, acc) ==
    LET Collect(e) ==
            IF ~e.ok THEN Panic
            ELSE Ok([df |-> e.df,
                     dynamic_columns |-> acc.new_dynamic_columns,
                     static_columns |-> acc.new_constant_columns,
                     unique_subsets |-> SurvivingSubsets(instance.list_expander, unique_subsets,
                                                         acc.existing, acc.new)])
    IN  IF acc.kind = "Err" THEN Err(acc.err)
        ELSE IF acc.kind = "Panic" THEN Panic
        ELSE IF \E n \in 1..Len(acc.existing) : acc.existing[n] \notin Range(df.cols) THEN Panic
        ELSE Collect(ListExpand(instance.list_expander, acc.to_expand,
                                RemappedFrame(df, acc.existing, acc.new, acc.expressions,
                                              acc.new \o acc.new_dynamic_from_constant)))

create_remapped(instance, signature, df, dynamic_columns, constant_columns, unique_subsets) ==
    RemapFinish(instance, df, unique_subsets,
                RemapLoop(RemapState, instance.argument_list, signature.parameter_list, 1,
                          dynamic_columns, constant_columns))

(***************************************************************************)
(* Mapping::_expand (mapping.rs 261-363).                                  *)
(***************************************************************************)
\* lines 279-321: the frame handed to one instance holds one series per variable
\* argument; DataFrame::new of no series is a frame of no column and no row
InstanceFrame(i, df) ==
    IF \A a \in Range(i.argument_list) : a.term.kind # "Variable"
    THEN DataFrame(<<>>, <<>>)
    ELSE select(df, get_variable_names(i))

\* get_variable_names reaches todo!() on a list term; get_number_per_series_map
\* unwraps on a variable that is no dynamic column, series_map.remove(v) on one
\* already taken or absent, and DataFrame::new on a repeated column name
InstanceFramesPanic(pattern_list, df, dynamic_columns) ==
    \E n \in 1..Len(pattern_list) :
        \/ \E a \in Range(pattern_list[n].argument_list) : a.term.kind = "List"
        \/ \E a \in Range(pattern_list[n].argument_list) :
              /\ a.term.kind = "Variable"
              /\ \/ a.term.name \notin DOMAIN dynamic_columns
                 \/ a.term.name \notin Range(df.cols)
        \/ \E m, l \in 1..Len(pattern_list[n].argument_list) :
              /\ m < l
              /\ pattern_list[n].argument_list[m].term.kind = "Variable"
              /\ pattern_list[n].argument_list[m].term = pattern_list[n].argument_list[l].term

\* lines 356-361: results read in order with `?`, then flattened
FlattenOk(results_ok) ==
    IF results_ok.kind # "Ok" THEN results_ok ELSE Ok(flatten(results_ok.v))

RECURSIVE _expand(_, _, _, _, _, _)

\* lines 327-348: what the worker of one instance returns
ExpandWorker(ds, i, df, dynamic_columns, static_columns, unique_subsets) ==
    LET Remapped(r) ==
            IF r.kind # "Ok" THEN r
            ELSE _expand(ds, i.template_name, r.v.df, r.v.dynamic_columns,
                         r.v.static_columns, r.v.unique_subsets)
        Worker(target_template) ==
            IF ~target_template.some THEN Panic
            ELSE Remapped(create_remapped(i, target_template.v.signature,
                                          InstanceFrame(i, df), dynamic_columns,
                                          static_columns, unique_subsets))
    IN  Worker(get(ds, i.template_name))

\* a collect that takes the workers' results in the order they finished in
ParCollect_FinishingOrder(finished, slots) ==
    [n \in 1..Len(finished) |-> slots[finished[n]]]

\* lines 325-350: par_drain(..).map(..).collect() into a Vec puts the result
\* of each worker at the index of its instance, whatever order they finished in
ParCollect(finished, slots) ==
    [n \in 1..Len(finished) |-> slots[n]]

_expand(ds, name, df, dynamic_columns, static_columns, unique_subsets) ==
    LET Instantiate(template) ==
            IF template.signature.template_name = OTTR_TRIPLE
            THEN Ok(<<OTTRTripleInstance(df, dynamic_columns, static_columns,
                                         unique_subsets # <<>>)>>)
            ELSE IF InstanceFramesPanic(template.pattern_list, df, dynamic_columns) THEN Panic
            ELSE FlattenOk(Collected([n \in 1..Len(template.pattern_list) |->
                               ExpandWorker(ds, template.pattern_list[n], df, dynamic_columns,
                                            static_columns, unique_subsets)]))
        Found(template) ==
            IF ~template.some THEN Err("TemplateNotFound") ELSE Instantiate(template.v)
    IN  Found(get(ds, name))

(***************************************************************************)
(* create_triples (mapping.rs 428-479).                                    *)
(***************************************************************************)
create_triples(i) ==
    LET sc == i.static_columns
        has_verb == "verb" \in DOMAIN sc
        verb_ok == sc["verb"].constant_term.kind = "Constant" /\ sc["verb"].constant_term.lit = "IRI"
        verb == IF has_verb THEN sc["verb"].constant_term.value ELSE None
        others == DOMAIN sc \ {"verb"}
        all_cols == Range(i.df.cols) \cup others
        dynamic_columns ==
            [c \in DOMAIN i.dynamic_columns \cup others |->
                IF c \in others
                THEN create_dynamic_expression_from_static(c, sc[c].constant_term,
                                                           sc[c].ptype).column
                ELSE i.dynamic_columns[c]]
        keep_cols == IF verb = None THEN <<"subject", "object", "verb">>
                     ELSE <<"subject", "object">>
        df == DataFrame(keep_cols,
                  [n \in 1..LiteralHeight(i.df, others # {}) |->
                      [c \in Range(keep_cols) |->
                          IF c \in others
                          THEN create_dynamic_expression_from_static(
                                   c, sc[c].constant_term, sc[c].ptype).expr.cell
                          ELSE i.df.rows[n][c]]])
    IN  IF has_verb /\ ~verb_ok THEN Err("InvalidPredicateConstant")
        ELSE IF \E c \in Range(keep_cols) : c \notin all_cols THEN Panic
        ELSE IF "object" \notin DOMAIN dynamic_columns THEN Panic
        ELSE Ok(TriplesToAdd(df, dynamic_columns["object"].rdf_node_type,
                             dynamic_columns["object"].language_tag, verb,
                             i.has_unique_subset))

(***************************************************************************)
(* Mapping::process_results (mapping.rs 365-399): [st, kind, err].         *)
(***************************************************************************)
\* a process_results that adds the batches made before the first error and
\* then returns the error
process_results_Partial(st, result_vec, call_uuid) ==
    LET triples == [n \in 1..Len(result_vec) |-> create_triples(result_vec[n])]
        made == CHOOSE m \in 0..Len(triples) :
                    /\ \A n \in 1..m : triples[n].kind = "Ok"
                    /\ m < Len(triples) => triples[m + 1].kind # "Ok"
        Added(a) ==
            IF a.panic THEN [st |-> a.st, kind |-> "Panic", err |-> None]
            ELSE IF made < Len(triples)
            THEN [st |-> a.st, kind |-> "Err", err |-> triples[made + 1].err]
            ELSE [st |-> a.st, kind |-> "Ok", err |-> None]
    IN  IF Collected(triples).kind = "Panic"
        THEN [st |-> st, kind |-> "Panic", err |-> None]
        ELSE Added(add_triples_vec(st, [n \in 1..made |-> triples[n].v], call_uuid))

\* process_results (365-399): the triples of every result are created first,
\* an error among them returned before anything is added; then one call of
\* add_triples_vec, which returns no error
process_results(st, result_vec, call_uuid) ==
    LET Added(a) ==
            IF a.panic THEN [st |-> a.st, kind |-> "Panic", err |-> None]
            ELSE [st |-> a.st, kind |-> "Ok", err |-> None]
        Then(triples) ==
            IF triples.kind # "Ok" THEN [st |-> st, kind |-> triples.kind, err |-> triples.err]
            ELSE Added(add_triples_vec(st, triples.v, call_uuid))
    IN  Then(Collected([n \in 1..Len(result_vec) |-> create_triples(result_vec[n])]))

(***************************************************************************)
(* Mapping::expand (mapping.rs 203-259): [st, kind, err].  est is          *)
(* df.estimated_size(); kind "Hang" is a chunk loop that never ends, with  *)
(* the store its first passes passes have left.  In                        *)
(* spill mode the caching folder is created first (line 226), and a folder *)
(* that cannot be created is returned as FolderCreateIOError.              *)
(***************************************************************************)
\* validate_infer_dataframe_columns: every parameter needs its column; the
\* column's RDF node type is read off the frame's dtypes
validate_infer_dataframe_columns(signature, df, dtypes) ==
    LET names == {signature.parameter_list[j].stottr_variable :
                     j \in 1..Len(signature.parameter_list)}
        Check(ns) == IF \E c \in ns : c \notin Range(df.cols)
                     THEN Err("MissingParameterColumnError")
                     ELSE Ok([c \in ns |-> PrimitiveColumn(dtypes[c], None)])
    IN  Check(names)

\* lines 234-241 and 248-255: one pass over one frame
ExpandPass(st, ds, name, df, columns, unique_subsets, call_uuid) ==
    LET Then(result_vec) ==
            IF result_vec.kind # "Ok"
            THEN [st |-> st, kind |-> result_vec.kind, err |-> result_vec.err]
            ELSE process_results(st, result_vec.v, call_uuid)
    IN  Then(_expand(ds, name, df, columns, <<>>, unique_subsets))

\* lines 227-246: the slices the loop hands to _expand, one after the other;
\* with chunk_size = 0 and rows left the offset never moves
RECURSIVE ChunkSlices(_, _, _)
ChunkSlices(df, chunk_size, offset) ==
    LET to_row == Min(height(df), offset + chunk_size)
        Rest(r) == [hang |-> r.hang, slices |-> <<slice(df, offset, to_row)>> \o r.slices]
    IN  IF offset + chunk_size >= height(df)
        THEN [hang |-> FALSE, slices |-> <<slice(df, offset, to_row)>>]
        ELSE IF chunk_size = 0 THEN [hang |-> TRUE, slices |-> <<slice(df, offset, to_row)>>]
        ELSE Rest(ChunkSlices(df, chunk_size, offset + chunk_size))

\* lines 230-246; with chunk_size = 0 and rows left the offset never moves
\* and the loop never ends: every pass expands the empty slice and installs
\* what that emits.  The call does not return; "Hang" is the run looked at
\* after its passes-th pass, an error or a panic of a pass ends the loop.
RECURSIVE ChunkLoop(_, _, _, _, _, _, _, _, _, _)
ChunkLoop(st, ds, name, df, columns, unique_subsets, call_uuid, chunk_size, offset, passes) ==
    LET to_row == Min(height(df), offset + chunk_size)
        Then(r) ==
            IF r.kind # "Ok" THEN r
            ELSE IF offset + chunk_size >= height(df) THEN r
            ELSE IF chunk_size = 0 /\ passes <= 1
            THEN [st |-> r.st, kind |-> "Hang", err |-> None]
            ELSE ChunkLoop(r.st, ds, name, df, columns, unique_subsets, call_uuid,
                           chunk_size, offset + chunk_size,
                           IF chunk_size = 0 THEN passes - 1 ELSE passes)
    IN  Then(ExpandPass(st, ds, name, slice(df, offset, to_row), columns, unique_subsets,
                        call_uuid))

\* lines 227-228: the chunk size the loop advances its offset by
ChunkSize(df, est) == height(df) \div ((est \div CHUNK_BYTES) + 1)

expand(st, ds, template, df, dtypes, unique_subsets_opt, est, call_uuid, passes) ==
    LET unique_subsets == IF unique_subsets_opt.some THEN unique_subsets_opt.v ELSE <<>>
        Validated(target_template_name, columns) ==
            IF columns.kind # "Ok" THEN [st |-> st, kind |-> "Err", err |-> columns.err]
            ELSE IF st.caching_folder # None /\ st.io_fail.kind = "folder"
            THEN [st |-> st, kind |-> "Err", err |-> "FolderCreateIOError"]
            ELSE IF st.caching_folder # None
            THEN ChunkLoop(st, ds, target_template_name, df, columns.v, unique_subsets,
                           call_uuid, ChunkSize(df, est), 0, passes)
            ELSE ExpandPass(st, ds, target_template_name, df, columns.v, unique_subsets,
                            call_uuid)
        Resolved(resolved) ==
            IF ~resolved.ok THEN [st |-> st, kind |-> "Err", err |-> resolved.err]
            ELSE Validated(resolved.template.signature.template_name,
                           validate_infer_dataframe_columns(resolved.template.signature,
                                                            df, dtypes))
    IN  Resolved(resolve_template(ds, template))

(***************************************************************************)
(* SPARQL entry points (triplestore/sparql.rs).  A query text is taken as  *)
(* parsed: its form, the bucket its graph pattern { ?s <pred> ?o } reads,  *)
(* and its CONSTRUCT template.                                             *)
(***************************************************************************)
TermVariable(v) == [kind |-> "Variable", value |-> v, dt |-> None]

TermNamedNode(nn) == [kind |-> "NamedNode", value |-> nn, dt |-> None]

TermLiteral(value, dt) == [kind |-> "Literal", value |-> value, dt |-> dt]

TermBlankNode == [kind |-> "BlankNode", value |-> None, dt |-> None]

TriplePattern(subject, predicate, object) ==
    [subject |-> subject, predicate |-> predicate, object |-> object]

\* triple_has_variable (125-133)
triple_has_variable(t) == t.subject.kind = "Variable" \/ t.object.kind = "Variable"

\* term_pattern_series / named_node_pattern_series / named_node_series /
\* variable_series (135-203): [panic, ser, dt]
term_pattern_series(df, datatypes, tp, len) ==
    CASE tp.kind = "NamedNode" ->
            [panic |-> FALSE, ser |-> [n \in 1..len |-> tp.value], dt |-> IRI]
      [] tp.kind = "Literal" ->
            [panic |-> FALSE, ser |-> [n \in 1..len |-> tp.value], dt |-> Literal(tp.dt)]
      [] tp.kind = "Variable" ->
            IF tp.value \in Range(df.cols) /\ tp.value \in DOMAIN datatypes
            THEN [panic |-> FALSE, ser |-> [n \in 1..Len(df.rows) |-> df.rows[n][tp.value]],
                  dt |-> datatypes[tp.value]]
            ELSE [panic |-> TRUE, ser |-> <<>>, dt |-> IRI]
      [] OTHER -> [panic |-> TRUE, ser |-> <<>>, dt |-> IRI]

\* triple_to_df (108-123): [panic, df, dt]
triple_to_df(df, datatypes, t) ==
    LET len == IF triple_has_variable(t) THEN height(df) ELSE 1
        Built(subj, verb, obj) ==
            IF \/ subj.panic \/ verb.panic \/ obj.panic
               \/ Len(verb.ser) # Len(subj.ser) \/ Len(obj.ser) # Len(subj.ser)
            THEN [panic |-> TRUE, df |-> DataFrame(<<>>, <<>>), dt |-> obj.dt]
            ELSE [panic |-> FALSE,
                  df |-> DataFrame(<<"subject", "verb", "object">>,
                            [n \in 1..Len(subj.ser) |->
                                [c \in {"subject", "verb", "object"} |->
                                    CASE c = "subject" -> subj.ser[n]
                                      [] c = "verb" -> verb.ser[n]
                                      [] OTHER -> obj.ser[n]]]),
                  dt |-> obj.dt]
    IN  Built(term_pattern_series(df, datatypes, t.subject, len),
              term_pattern_series(df, datatypes, t.predicate, len),
              term_pattern_series(df, datatypes, t.object, len))

\* lazy_graph_pattern on { ?s <pred> ?o }: the rows of the bucket, read back
\* from the spill files in spill mode.  A file that is gone cannot be read,
\* and SparqlError (sparql/errors.rs 6-15) has no variant for a failed read:
\* the query aborts
lazy_graph_pattern(st, pattern) ==
    LET k == Key(pattern.pred, pattern.object_type)
        types == [c \in {"s", "o"} |-> IF c = "s" THEN IRI ELSE pattern.object_type]
        Solutions(rows) ==
            Ok([mappings |->
                    DataFrame(<<"s", "o">>,
                        [n \in 1..Len(rows) |->
                            [c \in {"s", "o"} |-> IF c = "s" THEN rows[n]["subject"]
                                                  ELSE rows[n]["object"]]]),
                datatypes |-> types])
        Bucket(v) ==
            IF ~v.dfs.some /\ \E p \in Range(v.df_paths.v) : p \notin DOMAIN st.files
            THEN Panic
            ELSE Solutions(BucketRows(st, v))
    IN  IF k \notin DOMAIN st.df_map THEN Solutions(<<>>) ELSE Bucket(st.df_map[k])

\* query_parsed (40-87)
query_parsed(st, q) ==
    LET Built(dfs) == IF \E n \in 1..Len(dfs) : dfs[n].panic THEN Panic ELSE Ok(dfs)
        Then(sm) ==
            IF sm.kind # "Ok" THEN sm
            ELSE IF q.form = "Select" THEN Ok(<<>>)
            ELSE Built([n \in 1..Len(q.template) |->
                           triple_to_df(sm.v.mappings, sm.v.datatypes, q.template[n])])
    IN  IF q.form \in {"Select", "Construct"}
        THEN Then(lazy_graph_pattern(st, q.pattern))
        ELSE Err("QueryTypeNotSupported")

\* query (32-38): what deduplicate returns is not read at line 34
query(st, q, order, nshards) ==
    LET Parsed(d, r) == [st |-> d, kind |-> r.kind, err |-> r.err,
                         evaluated |-> q.form \in {"Select", "Construct"},
                         parsed |-> TRUE, v |-> r.v]
        Parse(d) ==
            IF q.form = "ParseError"
            THEN [st |-> d, kind |-> "Err", err |-> "ParseError", evaluated |-> FALSE,
                  parsed |-> FALSE, v |-> <<>>]
            ELSE Parsed(d, query_parsed(d, q))
        Deduplicated(r) == Parse(r.st)
    IN  IF ~st.deduplicated
        THEN Deduplicated(deduplicate(st, order, nshards))
        ELSE Parse(st)

\* Triplestore::add_triples(df, object_type, language_tag): one batch with its
\* verb column, added under a call_uuid of its own
add_triples(st, df, object_type, language_tag, call_uuid) ==
    add_triples_vec(st, <<TriplesToAdd(df, object_type, language_tag, None, FALSE)>>,
                    call_uuid)

RECURSIVE AddConstructed(_, _, _)
AddConstructed(st, dfs, uuid) ==
    LET Then(a) == IF a.panic THEN a ELSE AddConstructed(a.st, Tail(dfs), uuid + 1)
    IN  IF dfs = <<>> THEN [st |-> st, panic |-> FALSE]
        ELSE Then(add_triples(st, Head(dfs).df, Head(dfs).dt, None, uuid + 1))

\* construct_update that evaluates a SELECT as it does a CONSTRUCT
construct_update_RunsSelect(st, q, uuid) ==
    LET Added(added) == [st |-> added.st, kind |-> IF added.panic THEN "Panic" ELSE "Ok",
                         err |-> None]
        Then(res) ==
            IF res.kind # "Ok" THEN [st |-> st, kind |-> res.kind, err |-> res.err]
            ELSE Added(AddConstructed(st, res.v, uuid))
    IN  IF q.form = "ParseError" THEN [st |-> st, kind |-> "Err", err |-> "ParseError"]
        ELSE IF q.form \in {"Construct", "Select"} THEN Then(query_parsed(st, q))
        ELSE [st |-> st, kind |-> "Err", err |-> "QueryTypeNotSupported"]

\* construct_update (89-105); uuid is the number of call_uuids minted so far
construct_update(st, q, uuid) ==
    LET Added(added) == [st |-> added.st, kind |-> IF added.panic THEN "Panic" ELSE "Ok",
                         err |-> None]
        Then(res) ==
            IF res.kind # "Ok" THEN [st |-> st, kind |-> res.kind, err |-> res.err]
            ELSE Added(AddConstructed(st, res.v, uuid))
    IN  IF q.form = "ParseError" THEN [st |-> st, kind |-> "Err", err |-> "ParseError"]
        ELSE IF q.form = "Construct" THEN Then(query_parsed(st, q))
        ELSE [st |-> st, kind |-> "Err", err |-> "QueryTypeNotSupported"]

(***************************************************************************)
(* The templates the Mapping is constructed with, and the inputs of the    *)
(* calls.                                                                  *)
(***************************************************************************)
Str(a, b) == <<a, ":", b>>

TripleInstance(s, v, o) == Instance(None, OTTR_TRIPLE, <<Arg(s), Arg(v), Arg(o)>>)

SOParams == <<Parameter("s", None), Parameter("o", None)>>

Templates ==
    << Template(OTTR_TRIPLE,
           <<Parameter("subject", None), Parameter("verb", None), Parameter("object", None)>>,
           <<>>),
       \* h:A [?s, ?o] :: { ottr:Triple(?s, p, ?o) }
       Template(Str("h", "A"), SOParams,
           <<TripleInstance(Variable("s"), ConstantTerm(ConstantIRI("p")), Variable("o"))>>),
       \* h:D [?s, ?o] :: { ottr:Triple(?s, p, ?o), ottr:Triple(?s, p, ?o) }
       Template(Str("h", "D"), SOParams,
           <<TripleInstance(Variable("s"), ConstantTerm(ConstantIRI("p")), Variable("o")),
             TripleInstance(Variable("s"), ConstantTerm(ConstantIRI("p")), Variable("o"))>>),
       \* h:N [?s, ?o] :: { h:A(?s, ?o), ottr:Triple(?s, q, ?o) }
       Template(Str("h", "N"), SOParams,
           <<Instance(None, Str("h", "A"), <<Arg(Variable("s")), Arg(Variable("o"))>>),
             TripleInstance(Variable("s"), ConstantTerm(ConstantIRI("q")), Variable("o"))>>),
       \* h:L [?s, ?o] :: { ottr:Triple(?s, p, ?o), ottr:Triple(?s, "l", ?o) }
       Template(Str("h", "L"), SOParams,
           <<TripleInstance(Variable("s"), ConstantTerm(ConstantIRI("p")), Variable("o")),
             TripleInstance(Variable("s"), ConstantTerm(ConstantLiteral("l", XSD_STRING)),
                            Variable("o"))>>),
       \* h:B [?s, ?o] :: { ottr:Triple(?s, p, ?o), h:X(?s, ?o) }, h:X undefined
       Template(Str("h", "B"), SOParams,
           <<TripleInstance(Variable("s"), ConstantTerm(ConstantIRI("p")), Variable("o")),
             Instance(None, Str("h", "X"), <<Arg(Variable("s")), Arg(Variable("o"))>>)>>),
       \* h:C [?s, ?o] :: { h:B(?s, ?o) }: the undefined callee one level down
       Template(Str("h", "C"), SOParams,
           <<Instance(None, Str("h", "B"), <<Arg(Variable("s")), Arg(Variable("o"))>>)>>),
       \* h:P [?s, ?o] :: { e:A(?s, ?o) }: a callee named through the prefix e
       Template(Str("h", "P"), SOParams,
           <<Instance(None, Str("e", "A"), <<Arg(Variable("s")), Arg(Variable("o"))>>)>>),
       \* h:S [?s, ?o] :: { h:A(?s, c) }: ?o of h:A is a static column
       Template(Str("h", "S"), SOParams,
           <<Instance(None, Str("h", "A"),
                      <<Arg(Variable("s")), Arg(ConstantTerm(ConstantIRI("c")))>>)>>),
       \* h:U [?s, ?o] :: { ottr:Triple(?s, p, ?z) }: ?z is bound nowhere
       Template(Str("h", "U"), SOParams,
           <<TripleInstance(Variable("s"), ConstantTerm(ConstantIRI("p")), Variable("z"))>>),
       \* h:O [?s, ?o] :: { ottr:Triple(?s, p, ?o), ottr:Triple(?o, p, ?s) }
       Template(Str("h", "O"), SOParams,
           <<TripleInstance(Variable("s"), ConstantTerm(ConstantIRI("p")), Variable("o")),
             TripleInstance(Variable("o"), ConstantTerm(ConstantIRI("p")), Variable("s"))>>),
       \* h:E [?s, ?o] :: { cross | ottr:Triple(?s, p, ++?o) }
       Template(Str("h", "E"), SOParams,
           <<Instance("Cross", OTTR_TRIPLE,
                      <<Arg(Variable("s")), Arg(ConstantTerm(ConstantIRI("p"))),
                        Argument(TRUE, Variable("o"))>>)>>),
       \* h:K [?s, ?o] :: { ottr:Triple(a, p, b) }: no variable argument
       Template(Str("h", "K"), SOParams,
           <<TripleInstance(ConstantTerm(ConstantIRI("a")), ConstantTerm(ConstantIRI("p")),
                            ConstantTerm(ConstantIRI("b")))>>) >>

PrefixMap == (<<"e">> :> <<"h", ":">>)

\* names that resolve to a template whose expansion succeeds
ExpandNames == {Str("e", "A"), Str("h", "D"), Str("h", "N")}

\* names whose expansion fails: an invalid predicate constant, a prefix that
\* resolves to no template, a name that is no template, an undefined callee
FailingNames == {Str("h", "L"), Str("e", "X"), Str("x", "A"), Str("h", "B")}

InputRow(o) == [c \in {"s", "o"} |-> IF c = "s" THEN "a" ELSE o]

\* the input frames: empty, a repeated row, two rows, a null cell
Frames ==
    {DataFrame(<<"s", "o">>, rows) :
        rows \in {<<>>, <<InputRow("x"), InputRow("x")>>,
                  <<InputRow("x"), InputRow("y")>>, <<InputRow("x"), InputRow(Null)>>}}

FullFrame == DataFrame(<<"s", "o">>, <<InputRow("x"), InputRow("y")>>)

InputTypes == [c \in {"s", "o"} |-> IRI]

\* ExpandOptions.unique_subsets: a subset is named only for a frame whose rows
\* differ on it
UniqueSubsetOptions(df) ==
    {NoneV} \cup IF HasDuplicate(df.rows) THEN {} ELSE {Some(<<<<"s", "o">>>>)}

\* df.estimated_size(): what the rows weigh is not in the model's cells
EstimatedSizes(df) == IF height(df) = 0 THEN {0} ELSE {0, CHUNK_BYTES}

\* the passes a chunk loop that never ends has made when the run is looked at
HangPasses(df, est) ==
    IF caching_folder # None /\ height(df) > 0 /\ ChunkSize(df, est) = 0
    THEN 1..MaxHangPasses
    ELSE {1}

\* the input/output operation of a call that fails, if any: the n-th of a kind
NoFail == [kind |-> "none", n |-> 0]

Fail(kind, n) == [kind |-> kind, n |-> n]

WriteFails == {NoFail, Fail("write", 1), Fail("write", 2)}

IOFailChoices ==
    WriteFails \cup {Fail("read", 1), Fail("read", 2), Fail("read", 3), Fail("remove", 1)}

ShardCounts == {1, 2}

ExpandInputs ==
    UNION {{[template |-> t, df |-> df, us |-> us] :
               t \in ExpandNames, us \in UniqueSubsetOptions(df)} : df \in Frames}
    \cup {[template |-> t, df |-> FullFrame, us |-> NoneV] : t \in FailingNames}

\* the batches handed to add_triples_vec by a caller of the store: subject and
\* object columns under the static verb p, tagged has_unique_subset when the
\* rows differ
TripleRow(o) == [c \in {"subject", "object"} |-> IF c = "subject" THEN "a" ELSE o]

TriplesToAddInputs ==
    {TriplesToAdd(DataFrame(<<"subject", "object">>, rows), IRI, None, "p",
                  ~HasDuplicate(rows)) :
        rows \in {<<TripleRow("x"), TripleRow("x")>>, <<TripleRow("x"), TripleRow("y")>>}}

QueryPattern(pred, object_type) == [pred |-> pred, object_type |-> object_type]

Query(form, pattern, template) == [form |-> form, pattern |-> pattern, template |-> template]

Queries ==
    {Query("ParseError", QueryPattern("p", IRI), <<>>),
     Query("Ask", QueryPattern("p", IRI), <<>>),
     Query("Select", QueryPattern("p", IRI), <<>>),
     \* CONSTRUCT { ?s <q> ?o } WHERE { ?s <p> ?o }
     Query("Construct", QueryPattern("p", IRI),
           <<TriplePattern(TermVariable("s"), TermNamedNode("q"), TermVariable("o"))>>),
     \* CONSTRUCT { ?s <q> "l" . ?s <q> "l" } WHERE { ?s <p> ?o }
     Query("Construct", QueryPattern("p", IRI),
           <<TriplePattern(TermVariable("s"), TermNamedNode("q"), TermLiteral("l", XSD_STRING)),
             TriplePattern(TermVariable("s"), TermNamedNode("q"), TermLiteral("l", XSD_STRING))>>)}

(***************************************************************************)
(* The state machine.                                                      *)
(***************************************************************************)
Store(io_fail) ==
    [caching_folder |-> caching_folder, deduplicated |-> deduplicated, df_map |-> df_map,
     files |-> files, next_path |-> next_path, contributed |-> contributed,
     io |-> [read |-> 0, remove |-> 0, write |-> 0], io_fail |-> io_fail]

SetStore(st) ==
    /\ deduplicated' = st.deduplicated
    /\ df_map' = st.df_map
    /\ files' = st.files
    /\ next_path' = st.next_path
    /\ contributed' = st.contributed

\* the record of a call: its result, the call_uuid it added under, whether it
\* evaluated a graph pattern, and the store's flag when it was made
Call(op, kind, err, call_uuid, evaluated) ==
    [op |-> op, kind |-> kind, err |-> err, call_uuid |-> call_uuid, evaluated |-> evaluated,
     deduplicated_before |-> deduplicated]

\* a panic or an endless loop ends the run
Alive == last.kind \notin {"Panic", "Hang"}

\* what the environment decides in a call that may deduplicate: the order the
\* HashMaps are visited in, the number of shards, and the failing operation.
\* The order is the environment's in every call: a call that fails part-way,
\* at an operation that fails now or at a bucket whose files an earlier call
\* has removed, has done the buckets before it.  No shard is written and no
\* operation fails when no file is touched.
Environments(touches_files) ==
    IF caching_folder = None \/ ~touches_files
    THEN {[order |-> o, nshards |-> 1, io_fail |-> NoFail] : o \in Orders(DOMAIN df_map)}
    ELSE {[order |-> o, nshards |-> n, io_fail |-> f] :
             o \in Orders(DOMAIN df_map), n \in ShardCounts,
             f \in IF io_failures < MaxIOFailures THEN IOFailChoices ELSE {NoFail}}

Failures(io_fail) == IF io_fail = NoFail THEN io_failures ELSE io_failures + 1

\* what the environment decides in a call that adds: a failing write and the
\* size of the frame, in spill mode
WriteEnvironments(df) ==
    IF caching_folder = None THEN {[io_fail |-> NoFail, est |-> 0]}
    ELSE {[io_fail |-> f, est |-> e] :
             f \in IF io_failures < MaxIOFailures THEN WriteFails ELSE {NoFail},
             e \in EstimatedSizes(df)}

\* what the environment decides in an expand: as for a call that adds, or a
\* caching folder that cannot be created
ExpandEnvironments(df) ==
    UNION {{[io_fail |-> w.io_fail, est |-> w.est, passes |-> n] :
               n \in HangPasses(df, w.est)} : w \in WriteEnvironments(df)}
    \cup IF caching_folder # None /\ io_failures < MaxIOFailures
         THEN {[io_fail |-> Fail("folder", 1), est |-> 0, passes |-> 1]}
         ELSE {}

Init ==
    /\ caching_folder \in {None, "folder"}
    /\ deduplicated = Triplestore_new(caching_folder).deduplicated
    /\ df_map = Triplestore_new(caching_folder).df_map
    /\ files = <<>>
    /\ next_path = 0
    /\ next_uuid = 0
    /\ contributed = <<>>
    /\ template_dataset = [templates |-> Templates, prefix_map |-> PrefixMap]
    /\ last = Call("new", "Ok", None, 0, FALSE)
    /\ ops = 0
    /\ io_failures = 0

Expand ==
    /\ Alive
    /\ ops < MaxCalls
    /\ \E in \in ExpandInputs :
        \E env \in ExpandEnvironments(in.df) :
            LET Done(r) == /\ SetStore(r.st)
                           /\ last' = Call("expand", r.kind, r.err, next_uuid + 1, FALSE)
                           /\ io_failures' = Failures(env.io_fail)
            IN  Done(expand(Store(env.io_fail), template_dataset, in.template, in.df,
                            InputTypes, in.us, env.est, next_uuid + 1, env.passes))
    /\ next_uuid' = next_uuid + 1
    /\ ops' = ops + 1
    /\ UNCHANGED <<caching_folder, template_dataset>>

Deduplicate ==
    /\ Alive
    /\ \E env \in Environments(\E k \in DOMAIN df_map : ~df_map[k].unique) :
        LET Done(r) ==
                /\ SetStore(r.st)
                /\ last' = Call("deduplicate", IF r.result = "Ok" THEN "Ok" ELSE "Err",
                                IF r.result = "Ok" THEN None ELSE r.result, 0, FALSE)
                /\ io_failures' = Failures(env.io_fail)
        IN  Done(deduplicate(Store(env.io_fail), env.order, env.nshards))
    /\ UNCHANGED <<caching_folder, template_dataset, next_uuid, ops>>

QueryCall ==
    /\ Alive
    /\ \E q \in Queries, env \in Environments(~deduplicated) :
        LET Done(r) == /\ SetStore(r.st)
                       /\ last' = Call("query", r.kind, r.err, 0, r.evaluated)
                       /\ io_failures' = Failures(env.io_fail)
        IN  Done(query(Store(env.io_fail), q, env.order, env.nshards))
    /\ UNCHANGED <<caching_folder, template_dataset, next_uuid, ops>>

\* a call of the store's add_triples_vec with a call_uuid of the caller's: the
\* one minted last, or a new one
AddTriplesVec ==
    /\ Alive
    /\ ops < MaxCalls
    /\ \E t \in TriplesToAddInputs, call_uuid \in {next_uuid, next_uuid + 1} \ {0},
          env \in WriteEnvironments(DataFrame(<<>>, <<>>)) :
        LET Done(r) == /\ SetStore(r.st)
                       /\ last' = Call("add_triples_vec",
                                       IF r.panic THEN "Panic" ELSE "Ok", None,
                                       call_uuid, FALSE)
                       /\ next_uuid' = call_uuid
                       /\ io_failures' = Failures(env.io_fail)
        IN  Done(add_triples_vec(Store(env.io_fail), <<t>>, call_uuid))
    /\ ops' = ops + 1
    /\ UNCHANGED <<caching_folder, template_dataset>>

ConstructUpdate ==
    /\ Alive
    /\ ops < MaxCalls
    /\ \E q \in Queries, env \in WriteEnvironments(DataFrame(<<>>, <<>>)) :
        LET minted(r) == IF q.form = "Construct" /\ r.kind # "Err" THEN Len(q.template) ELSE 0
            Done(r) == /\ SetStore(r.st)
                       /\ last' = Call("construct_update", r.kind, r.err,
                                       next_uuid + minted(r), FALSE)
                       /\ next_uuid' = next_uuid + minted(r)
                       /\ io_failures' = Failures(env.io_fail)
        IN  Done(construct_update(Store(env.io_fail), q, next_uuid))
    /\ ops' = ops + 1
    /\ UNCHANGED <<caching_folder, template_dataset>>

\* Triplestore::write_n_triples_all_dfs, write_native_parquet and
\* export_oxrdf_triples take the store mutably: pending deduplication is
\* forced, then every bucket is read; [st, result]
export(st, order, nshards) ==
    LET Read(d) ==
            IF \E k \in DOMAIN d.df_map :
                   /\ ~d.df_map[k].dfs.some
                   /\ \E p \in Range(d.df_map[k].df_paths.v) : p \notin DOMAIN d.files
            THEN [st |-> d, result |-> "ReadParquetError"]
            ELSE [st |-> d, result |-> "Ok"]
        Deduplicated(r) == IF r.result # "Ok" THEN r ELSE Read(r.st)
    IN  IF ~st.deduplicated
        THEN Deduplicated(deduplicate(st, order, nshards))
        ELSE Read(st)

ExportFunctions == {"write_n_triples", "write_native_parquet", "export_oxrdf_triples"}

\* Mapping::write_n_triples (mapping.rs 163-168) unwraps what the store
\* returns; write_native_parquet (170-174) and export_oxrdf_triples (176-178)
\* return it
Mapping_export(st, f, order, nshards) ==
    LET Then(r) ==
            IF r.result = "Ok" THEN [st |-> r.st, kind |-> "Ok", err |-> None]
            ELSE IF f = "write_n_triples" THEN [st |-> r.st, kind |-> "Panic", err |-> None]
            ELSE [st |-> r.st, kind |-> "Err", err |-> r.result]
    IN  Then(export(st, order, nshards))

Export ==
    /\ Alive
    /\ \E f \in ExportFunctions, env \in Environments(~deduplicated) :
        LET Done(r) == /\ SetStore(r.st)
                       /\ last' = Call(f, r.kind, r.err, 0, FALSE)
                       /\ io_failures' = Failures(env.io_fail)
        IN  Done(Mapping_export(Store(env.io_fail), f, env.order, env.nshards))
    /\ UNCHANGED <<caching_folder, template_dataset, next_uuid, ops>>

\* the operations on the store with the templates the Mapping was constructed
\* with.  Mapping::expand_default, which expands a template it generates, is
\* the step of SpecDefault.
Next == Expand \/ AddTriplesVec \/ Deduplicate \/ QueryCall \/ ConstructUpdate \/ Export

Spec == Init /\ [][Next]_vars

(***************************************************************************)
(* Properties of the store.                                                *)
(***************************************************************************)
Buckets == DOMAIN df_map

\* the rows a bucket holds, batch after batch or file after file
Rows(k) == BucketRows(Store(NoFail), df_map[k])

\* C1: in every reachable state, also after a call that returned an error, the
\* store's deduplicated flag is true exactly when every bucket's unique flag is.
C1_DeduplicatedIffAllUnique ==
    deduplicated <=> \A k \in Buckets : df_map[k].unique

\* a deduplicate that failed part-way: of two buckets of one call, one was
\* rewritten into new files and the other was left non-unique
C1_Witness ==
    /\ caching_folder # None
    /\ last.op = "deduplicate" /\ last.kind = "Err"
    /\ ~deduplicated
    /\ \E k1, k2 \in Buckets :
          /\ df_map[k1].unique /\ ~df_map[k2].unique
          /\ df_map[k1].call_uuid = df_map[k2].call_uuid
          /\ \A p1 \in Range(df_map[k1].df_paths.v), p2 \in Range(df_map[k2].df_paths.v) :
                p1 > p2

\* C2: whenever a bucket's unique flag is true, all rows of the concatenation of
\* its batches (or spill files) are distinct, also when one call installed
\* several batches into the bucket.
C2_UniqueMeansDistinct ==
    \A k \in Buckets : df_map[k].unique => ~HasDuplicate(Rows(k))

\* C3: a batch that arrives in an existing bucket leaves unique as it was when
\* it comes under the bucket's call_uuid, and sets unique and the store's
\* deduplicated flag to false when it comes under another; a bucket created by
\* a call is unique however many batches of that call it holds.  In both modes.
C3_UniqueFollowsCallUuid ==
    [][ last'.op \in {"expand", "add_triples_vec"} =>
          \A k \in DOMAIN df_map' :
              IF k \notin Buckets
              THEN df_map'[k].unique /\ df_map'[k].call_uuid = last'.call_uuid
              ELSE /\ df_map'[k].call_uuid = df_map[k].call_uuid
                   /\ TripleTable_len(df_map'[k]) > TripleTable_len(df_map[k]) =>
                        /\ df_map'[k].unique =
                              (df_map[k].unique /\ df_map[k].call_uuid = last'.call_uuid)
                        /\ ~df_map'[k].unique => ~deduplicated'
                   /\ TripleTable_len(df_map'[k]) = TripleTable_len(df_map[k]) =>
                        df_map'[k] = df_map[k] ]_vars

\* in spill mode: one bucket turned non-unique by a batch of another call, next
\* to a bucket that holds several batches of one call and is still unique
C3_Witness ==
    /\ caching_folder # None
    /\ last.op \in {"expand", "add_triples_vec"}
    /\ ~deduplicated
    /\ \E k \in Buckets : ~df_map[k].unique /\ df_map[k].call_uuid # last.call_uuid
    /\ \E k \in Buckets : /\ df_map[k].unique
                          /\ df_map[k].call_uuid = last.call_uuid
                          /\ TripleTable_len(df_map[k]) >= 2

C4_Representation ==
    \A k \in Buckets :
        IF caching_folder = None
        THEN df_map[k].dfs.some /\ df_map[k].dfs.v # <<>> /\ ~df_map[k].df_paths.some
        ELSE df_map[k].df_paths.some /\ df_map[k].df_paths.v # <<>> /\ ~df_map[k].dfs.some

\* C4: every bucket holds a non-empty list of in-memory batches and no path list,
\* or a non-empty path list and no in-memory batches; which one is decided by
\* whether the store has a caching folder, and that never changes.
C4_ExactlyOneRepresentation ==
    C4_Representation /\ [][C4_Representation' /\ caching_folder' = caching_folder]_vars

\* spill files in place of batches, after a deduplicate that rewrote a bucket
C4_Witness ==
    /\ caching_folder # None
    /\ last.op = "deduplicate" /\ last.kind = "Ok" /\ ~last.deduplicated_before
    /\ \E k \in Buckets : TripleTable_len(df_map[k]) >= 2

\* C5: after a successful deduplicate every bucket holds exactly the rows of the
\* batches contributed to it, each row once, also a bucket that was unique
\* when deduplicate was called.
C5_DeduplicateGivesSetUnion ==
    (last.op = "deduplicate" /\ last.kind = "Ok") =>
        \A k \in Buckets : Range(Rows(k)) = contributed[k] /\ ~HasDuplicate(Rows(k))

\* C6: a successful deduplicate ends with every bucket unique and the store's
\* flag true, and a second deduplicate right after it returns Ok and changes no
\* batch list, no path list and no flag, whatever the environment.
C6_DeduplicateIdempotent ==
    (last.op = "deduplicate" /\ last.kind = "Ok") =>
        /\ deduplicated
        /\ \A k \in Buckets : df_map[k].unique
        /\ \A order \in Orders(Buckets), nshards \in ShardCounts, f \in IOFailChoices :
              deduplicate(Store(f), order, nshards) = [st |-> Store(f), result |-> "Ok"]

\* a deduplicate that had two buckets to visit, at least one of them non-unique
C6_Witness ==
    /\ last.op = "deduplicate" /\ last.kind = "Ok" /\ ~last.deduplicated_before
    /\ Cardinality(Buckets) >= 2

\* C7: when query evaluates a graph pattern the store's flag is true and no
\* bucket holds a row twice, and the flag is true also after a query whose text
\* does not parse or whose form is not supported.
C7_QueryEvaluatesDeduplicated ==
    last.op = "query" =>
        /\ last.evaluated => deduplicated /\ \A k \in Buckets : ~HasDuplicate(Rows(k))
        /\ last.err \in {"ParseError", "QueryTypeNotSupported"} => deduplicated

\* C9: an expand that returns an error leaves every bucket, every unique flag
\* and the store's flag as they were before the call, with and without a
\* caching folder, whichever chunk the failure occurs in.
C9_NoPartialCommit ==
    [][ (last'.op = "expand" /\ last'.kind = "Err") =>
          /\ df_map' = df_map
          /\ files' = files
          /\ deduplicated' = deduplicated ]_vars

\* an expand into a store that holds triples, with a caching folder, that
\* returned the error of its second instance after the batch of its first
\* had been made (h:L: a literal as predicate)
C9_Witness ==
    /\ caching_folder # None
    /\ last.op = "expand" /\ last.kind = "Err" /\ last.err = "InvalidPredicateConstant"
    /\ Buckets # {}

\* the distinct rows a bucket of the next state holds
RowsAfter(k) == Range(Rows(k))'

\* C24: over every expand, add_triples_vec, deduplicate, query and
\* construct_update, no bucket key is lost and no bucket loses a distinct row.
C24_BucketsGrow ==
    [][ /\ Buckets \subseteq DOMAIN df_map'
        /\ \A k \in Buckets : Range(Rows(k)) \subseteq RowsAfter(k) ]_vars

\* the same without a caching folder, and with one as long as no read,
\* removal or write of a spill file fails
C24_BucketsGrowWithoutIOFailure ==
    [][ (caching_folder = None \/ io_failures' = 0) =>
          /\ Buckets \subseteq DOMAIN df_map'
          /\ \A k \in Buckets : Range(Rows(k)) \subseteq RowsAfter(k) ]_vars

\* the spill files a call was to write and did not
Unwritten == {p \in (next_path + 1)..next_path' : p \notin DOMAIN files'}

\* the spill files a call wrote that no bucket's path list names
Unlisted ==
    {p \in (next_path + 1)..next_path' :
        p \in DOMAIN files' /\ \A k \in DOMAIN df_map' : p \notin Range(df_map'[k].df_paths.v)}

\* C28: with a caching folder, an expand one of whose batches could not be
\* written returns an error, and an expand that returns Ok has every batch of
\* the call written and named in a bucket's path list.
C28_WriteFailureSurfaces ==
    [][ (last'.op = "expand" /\ caching_folder # None) =>
          /\ Unwritten # {} => last'.kind = "Err"
          /\ last'.kind = "Ok" => Unwritten = {} /\ Unlisted = {} ]_vars

\* a batch that could not be written is never reported: an expand in which a
\* write failed returns Ok
C28_WriteFailureIsSilent ==
    [][ (last'.op = "expand" /\ caching_folder # None /\ Unwritten # {}) =>
          last'.kind = "Ok" ]_vars

\* C29: with a caching folder, in every reachable state, also after a
\* deduplicate that failed part-way, every path of a bucket's path list names
\* a spill file that exists.
C29_PathsNameFiles ==
    caching_folder # None =>
        \A k \in Buckets : \A p \in Range(df_map[k].df_paths.v) : p \in DOMAIN files

\* the same as long as no deduplicate has failed on a removal or a write
C29_PathsNameFilesAfterAdding ==
    (caching_folder # None /\ io_failures = 0) =>
        \A k \in Buckets : \A p \in Range(df_map[k].df_paths.v) : p \in DOMAIN files

(***************************************************************************)
(* Two expansions of one input, then deduplicate.                          *)
(***************************************************************************)
InitTwice ==
    /\ caching_folder \in {None, "folder"}
    /\ deduplicated = Triplestore_new(caching_folder).deduplicated
    /\ df_map = Triplestore_new(caching_folder).df_map
    /\ files = <<>>
    /\ next_path = 0
    /\ next_uuid = 0
    /\ contributed = <<>>
    /\ template_dataset = [templates |-> Templates, prefix_map |-> PrefixMap]
    /\ \E in \in ExpandInputs :
          last = [op |-> "new", kind |-> "Ok", in |-> in, expansions |-> 0]
    /\ ops = 0
    /\ io_failures = 0

\* the input of the run expanded once more; in spill mode the frame's size is
\* the environment's
ExpandSame ==
    /\ last.kind = "Ok"
    /\ last.op \in {"new", "expand"}
    /\ last.expansions < 2
    /\ \E est \in IF caching_folder # None THEN EstimatedSizes(last.in.df) ELSE {0} :
        \E passes \in HangPasses(last.in.df, est) :
            LET Done(r) == /\ SetStore(r.st)
                           /\ last' = [last EXCEPT !.op = "expand", !.kind = r.kind,
                                                   !.expansions = @ + 1]
            IN  Done(expand(Store(NoFail), template_dataset, last.in.template, last.in.df,
                            InputTypes, last.in.us, est, next_uuid + 1, passes))
    /\ next_uuid' = next_uuid + 1
    /\ ops' = ops + 1
    /\ UNCHANGED <<caching_folder, template_dataset, io_failures>>

DeduplicateAfter ==
    /\ last.kind = "Ok"
    /\ last.op = "expand"
    /\ last.expansions = 2
    /\ \E order \in Orders(Buckets),
          nshards \in IF caching_folder # None THEN ShardCounts ELSE {1} :
        LET Done(r) == /\ SetStore(r.st)
                       /\ last' = [last EXCEPT !.op = "deduplicate",
                                               !.kind = IF r.result = "Ok" THEN "Ok"
                                                        ELSE "Err"]
        IN  Done(deduplicate(Store(NoFail), order, nshards))
    /\ UNCHANGED <<caching_folder, template_dataset, next_uuid, ops, io_failures>>

NextTwice == ExpandSame \/ DeduplicateAfter

SpecTwice == InitTwice /\ [][NextTwice]_vars

\* the store after one expansion of the run's input into a new store
Single ==
    expand(Triplestore_new(caching_folder), template_dataset, last.in.template, last.in.df,
           InputTypes, last.in.us, 0, 1, 1).st

SingleRows(k) == BucketRows(Single, Single.df_map[k])

\* C8: after two expansions of one template over one input and the deduplicate
\* that follows, the deduplicate has returned Ok, every bucket holds exactly
\* the set of rows of a single expansion, each row once, and the store's flag
\* is true.
C8_TwiceThenDeduplicate ==
    last.op = "deduplicate" =>
        /\ last.kind = "Ok"
        /\ deduplicated
        /\ Buckets = DOMAIN Single.df_map
        /\ \A k \in Buckets : /\ Range(Rows(k)) = Range(SingleRows(k))
                              /\ ~HasDuplicate(Rows(k))
                              /\ Len(Rows(k)) = Cardinality(Range(SingleRows(k)))

\* two buckets, one of them with two rows, after the deduplicate
C8_Witness ==
    /\ last.op = "deduplicate" /\ last.kind = "Ok"
    /\ Cardinality(Buckets) = 2
    /\ \E k \in Buckets : Len(Rows(k)) = 2 /\ Len(SingleRows(k)) = 2

(***************************************************************************)
(* One expansion into a new store, over every template of the dataset.     *)
(***************************************************************************)
\* the names of the dataset's templates, and the names that resolve to none
TemplateNames ==
    {Templates[n].signature.template_name : n \in 1..Len(Templates)} \ {OTTR_TRIPLE}

\* the templates that list-expand the column o
ListNames == {Str("h", "E")}

OnceNames == (TemplateNames \ ListNames) \cup {Str("e", "A"), Str("e", "X"), Str("x", "A")}

\* frames whose column o holds lists: an empty list, two elements, one
\* element twice, a null element, two rows
ListFrames ==
    {DataFrame(<<"s", "o">>, rows) :
        rows \in {<<>>, <<InputRow(<<>>)>>, <<InputRow(<<"x", "y">>)>>,
                  <<InputRow(<<"x", "x">>)>>, <<InputRow(<<"x", Null>>)>>,
                  <<InputRow(<<"x">>), InputRow(<<"y", "z">>)>>}}

\* the input frames, and one of three rows
OnceFrames ==
    Frames \cup {DataFrame(<<"s", "o">>, <<InputRow("x"), InputRow("y"), InputRow("z")>>)}

\* df.estimated_size(): below 50 MB, and in the second and third 50 MB
OnceSizes(df) == IF height(df) = 0 THEN {0} ELSE {0, CHUNK_BYTES, 2 * CHUNK_BYTES}

\* a list template is handed a frame with a list column, any other template
\* a frame of plain cells
OnceInputs ==
    UNION {{[template |-> t, df |-> df, us |-> us] :
               t \in OnceNames, us \in UniqueSubsetOptions(df)} : df \in OnceFrames}

ListInputs ==
    {[template |-> t, df |-> df, us |-> NoneV] : t \in ListNames, df \in ListFrames}

InitOnce ==
    /\ caching_folder \in {None, "folder"}
    /\ deduplicated = Triplestore_new(caching_folder).deduplicated
    /\ df_map = Triplestore_new(caching_folder).df_map
    /\ files = <<>>
    /\ next_path = 0
    /\ next_uuid = 0
    /\ contributed = <<>>
    /\ template_dataset = [templates |-> Templates, prefix_map |-> PrefixMap]
    /\ last = [op |-> "new"]
    /\ ops = 0
    /\ io_failures = 0

\* Mapping::expand of one input, with the estimated size of its frame
ExpandInput(in, est, passes) ==
    LET Done(r) == /\ SetStore(r.st)
                   /\ last' = [op |-> "expand", in |-> in, est |-> est, passes |-> passes,
                               kind |-> r.kind, err |-> r.err]
    IN  /\ Done(expand(Store(NoFail), template_dataset, in.template, in.df,
                       InputTypes, in.us, est, next_uuid + 1, passes))
        /\ next_uuid' = next_uuid + 1
        /\ ops' = ops + 1
        /\ UNCHANGED <<caching_folder, template_dataset, io_failures>>

ExpandOnce ==
    /\ last.op = "new"
    /\ \E in \in OnceInputs :
        \E est \in IF caching_folder # None THEN OnceSizes(in.df) ELSE {0} :
            \E passes \in HangPasses(in.df, est) :
                ExpandInput(in, est, passes)

ExpandOnceList ==
    /\ last.op = "new"
    /\ \E in \in ListInputs :
        \E est \in IF caching_folder # None THEN OnceSizes(in.df) ELSE {0} :
            \E passes \in HangPasses(in.df, est) :
                ExpandInput(in, est, passes)

NextOnce == ExpandOnce \/ ExpandOnceList

SpecOnce == InitOnce /\ [][NextOnce]_vars

\* the template a name handed to expand stands for, by the exact name or
\* through the prefix map
Resolution(name) == resolve_template(template_dataset, name)

\* the template names the instances of a template refer to, and those they
\* refer to in turn, down to the given depth
RECURSIVE Referenced(_, _)
Referenced(name, depth) ==
    IF depth = 0 \/ ~Resolution(name).ok THEN {}
    ELSE LET pattern_list == Resolution(name).template.pattern_list
             direct == {pattern_list[n].template_name : n \in 1..Len(pattern_list)}
         IN  direct \cup UNION {Referenced(d, depth - 1) : d \in direct}

MaxDepth == 3

\* C11: every template name a sub-instance refers to, at any depth, is resolved
\* by the exact name or through the prefix map, and an expansion that reaches
\* a sub-instance whose name resolves to no template returns TemplateNotFound;
\* it ends in no other way.
C11_SubInstanceResolution ==
    (last.op = "expand" /\ Resolution(last.in.template).ok) =>
        LET callees == Referenced(last.in.template, MaxDepth)
        IN  /\ (\E c \in callees : ~Resolution(c).ok) =>
                  last.kind = "Err" /\ last.err = "TemplateNotFound"
            /\ (/\ \A c \in callees : Resolution(c).ok
                /\ \E c \in callees : ~get(template_dataset, c).some) =>
                  last.kind # "Panic"

\* the names of a template's parameters, and the names its instances pass as
\* variable arguments
ParameterNames(t) ==
    {t.signature.parameter_list[n].stottr_variable :
        n \in 1..Len(t.signature.parameter_list)}

VariableArguments(t) ==
    UNION {Range(get_variable_names(t.pattern_list[n])) : n \in 1..Len(t.pattern_list)}

\* an instance of t hands a constant, not list-expanded, to a parameter that
\* the callee passes on as a variable: in the callee the variable names a
\* static column
PassesStaticVariable(t) ==
    \E n \in 1..Len(t.pattern_list) :
        LET i == t.pattern_list[n]
            callee == get(template_dataset, i.template_name)
        IN  /\ callee.some
            /\ \E k \in 1..Min(Len(i.argument_list),
                                Len(callee.v.signature.parameter_list)) :
                  /\ i.argument_list[k].term.kind = "ConstantTerm"
                  /\ ~i.argument_list[k].list_expand
                  /\ callee.v.signature.parameter_list[k].stottr_variable
                         \in VariableArguments(callee.v)

\* C12: a variable argument that names a static column of the caller is carried
\* into the callee as a static column, so the expansion succeeds, and one that
\* names neither a dynamic nor a static column makes expand return
\* UnknownVariable.
C12_VariableArgumentOutcomes ==
    (last.op = "expand" /\ Resolution(last.in.template).ok) =>
        LET t == Resolution(last.in.template).template
        IN  /\ ~(VariableArguments(t) \subseteq ParameterNames(t)) =>
                  last.kind = "Err" /\ last.err = "UnknownVariableError"
            /\ PassesStaticVariable(t) => last.kind = "Ok"

\* through expand, a variable argument never yields UnknownVariable
C12_UnknownVariableUnreachable ==
    last.op = "expand" => last.err # "UnknownVariableError"

\* the template has instances, all of them of ottr:Triple
OnlyTriples(t) ==
    /\ t.pattern_list # <<>>
    /\ \A n \in 1..Len(t.pattern_list) : t.pattern_list[n].template_name = OTTR_TRIPLE

RECURSIVE SumSeq(_)
SumSeq(ns) == IF ns = <<>> THEN 0 ELSE Head(ns) + SumSeq(Tail(ns))

\* the rows of the store's buckets, counted
RECURSIVE StoredTriples(_)
StoredTriples(ks) ==
    IF ks = {} THEN 0
    ELSE LET k == CHOOSE k \in ks : TRUE
         IN  Len(Rows(k)) + StoredTriples(ks \ {k})

\* the leaf emissions _expand returns for the whole input
Emissions(in) ==
    LET t == Resolution(in.template).template
    IN  _expand(template_dataset, t.signature.template_name, in.df,
                validate_infer_dataframe_columns(t.signature, in.df, InputTypes).v, <<>>,
                IF in.us.some THEN in.us.v ELSE <<>>)

EmittedTriples(in) ==
    SumSeq([n \in 1..Len(Emissions(in).v) |-> height(Emissions(in).v[n].df)])

\* the rows an instance makes of the input: one per row, or one per element
\* of the row's list when the instance list-expands ?o
RowsOf(i, df) ==
    IF \E a \in Range(i.argument_list) : a.list_expand
    THEN SumSeq([n \in 1..height(df) |-> Max(1, Len(df.rows[n].o))])
    ELSE height(df)

RowsTimesPatterns(in) ==
    LET t == Resolution(in.template).template
    IN  SumSeq([n \in 1..Len(t.pattern_list) |-> RowsOf(t.pattern_list[n], in.df)])

\* C16: for a template of ottr:Triple instances only, the number of triples
\* one expand adds to the store is rows(input) x |pattern_list|, list
\* expansion accounted for, for every input, also one with null cells or
\* repeated rows.
C16_AddedIsRowsTimesPatterns ==
    (/\ last.op = "expand" /\ last.kind = "Ok"
     /\ OnlyTriples(Resolution(last.in.template).template)) =>
        StoredTriples(Buckets) = RowsTimesPatterns(last.in)

\* every instance of the template has a variable among its arguments
VariableInEach(t) ==
    \A n \in 1..Len(t.pattern_list) :
        \E a \in Range(t.pattern_list[n].argument_list) : a.term.kind = "Variable"

\* an instance without a variable argument has an instance frame without
\* columns and rows, to which create_triples adds its constants as one row:
\* the expansion adds one triple whatever the input holds, one for an input
\* without rows and one for an input of two rows
C16_ConstantInstanceAddsOnce ==
    (/\ last.op = "expand" /\ last.kind = "Ok"
     /\ OnlyTriples(Resolution(last.in.template).template)
     /\ ~VariableInEach(Resolution(last.in.template).template)) =>
        /\ EmittedTriples(last.in) = 0
        /\ StoredTriples(Buckets) >= 1
        /\ caching_folder = None => StoredTriples(Buckets) = 1

\* where every instance has a variable argument the emitted triples are
\* rows(input) x |pattern_list|; the triples added without a spill folder
\* are never more, and as many when no emitted row holds a null and no
\* emission holds a row twice
C16_VariableInstancesEmitPerRow ==
    (/\ last.op = "expand" /\ last.kind = "Ok"
     /\ OnlyTriples(Resolution(last.in.template).template)
     /\ VariableInEach(Resolution(last.in.template).template)) =>
        /\ Emissions(last.in).kind = "Ok"
        /\ EmittedTriples(last.in) = RowsTimesPatterns(last.in)
        /\ caching_folder = None =>
              /\ StoredTriples(Buckets) <= RowsTimesPatterns(last.in)
              /\ (\A e \in Range(Emissions(last.in).v) :
                      /\ \A r \in Range(e.df.rows) : \A c \in DOMAIN r : r[c] # Null
                      /\ ~HasDuplicate(e.df.rows)) =>
                    StoredTriples(Buckets) = RowsTimesPatterns(last.in)

\* lines 227-228: the chunks of the input under its estimated size
Chunks(df, est) == ChunkSlices(df, ChunkSize(df, est), 0)

\* the input rows as the leaf of h:A names them
AsTriples(rows) ==
    [n \in 1..Len(rows) |-> [c \in {"subject", "object"} |->
                                 IF c = "subject" THEN rows[n].s ELSE rows[n].o]]

\* an expansion of h:A over distinct rows without null, with a spill folder:
\* every chunk that holds rows is written to one file of the bucket (p, IRI)
ChunkedExpansion ==
    /\ last.op = "expand"
    /\ caching_folder # None
    /\ last.in.template = Str("h", "A")
    /\ ~HasDuplicate(last.in.df.rows)
    /\ \A r \in Range(last.in.df.rows) : r.o # Null

\* C18: with a spill folder the input is cut into consecutive chunks, every
\* input row in exactly one chunk, each chunk processed once, and an input
\* whose estimated size is below 50 MB is one chunk with all rows.
C18_EveryRowInOneChunk ==
    ChunkedExpansion =>
        /\ last.kind = "Ok"
        /\ ~Chunks(last.in.df, last.est).hang
        /\ flatten([n \in 1..Len(Chunks(last.in.df, last.est).slices) |->
                        Chunks(last.in.df, last.est).slices[n].rows]) = last.in.df.rows
        /\ last.est < CHUNK_BYTES => Chunks(last.in.df, last.est).slices = <<last.in.df>>
        /\ \A k \in Buckets : Rows(k) = AsTriples(last.in.df.rows)

\* the rows the store holds after a chunked expansion that returned are the
\* rows of the slices, one slice after the other
C18_SlicesAreProcessed ==
    (ChunkedExpansion /\ last.kind = "Ok") =>
        /\ ~Chunks(last.in.df, last.est).hang
        /\ \A k \in Buckets :
              Rows(k) = AsTriples(flatten([n \in 1..Len(Chunks(last.in.df, last.est).slices) |->
                                              Chunks(last.in.df, last.est).slices[n].rows]))

\* an input below 50 MB is one chunk with all rows, and without a spill
\* folder the input is expanded in one pass
C18_SmallInputIsOneChunk ==
    (/\ last.op = "expand" /\ last.in.template = Str("h", "A")
     /\ (caching_folder = None \/ last.est < CHUNK_BYTES)
     /\ ~HasDuplicate(last.in.df.rows)
     /\ \A r \in Range(last.in.df.rows) : r.o # Null) =>
        /\ last.kind = "Ok"
        /\ Chunks(last.in.df, last.est).slices = <<last.in.df>>
        /\ \A k \in Buckets : /\ Rows(k) = AsTriples(last.in.df.rows)
                              /\ TripleTable_len(df_map[k]) = 1

\* C25: with a caching folder an expand that no error ends returns for every
\* input: the chunk loop advances its offset by at least one row on every
\* pass that leaves rows behind, also when the input has fewer rows than
\* 50 MB chunks.
C25_ChunkLoopTerminates ==
    (last.op = "expand" /\ caching_folder # None /\ last.kind \notin {"Err", "Panic"}) =>
        /\ last.kind # "Hang"
        /\ ChunkSize(last.in.df, last.est) < height(last.in.df) =>
              ChunkSize(last.in.df, last.est) > 0

\* expand returns whenever the input has at least as many rows as 50 MB
\* chunks, and whenever it has no row
C25_TerminatesWithEnoughRows ==
    (/\ last.op = "expand" /\ caching_folder # None
     /\ \/ height(last.in.df) = 0
        \/ height(last.in.df) >= (last.est \div CHUNK_BYTES) + 1) =>
        last.kind # "Hang"

(***************************************************************************)
(* One expansion whose workers, one per instance of the template, finish   *)
(* in any order.                                                           *)
(***************************************************************************)
ParNames ==
    {Str("h", "A"), Str("h", "D"), Str("h", "N"), Str("h", "O"), Str("h", "L"), Str("h", "B")}

ParInputs ==
    UNION {{[template |-> t, df |-> df, us |-> us] :
               t \in ParNames, us \in UniqueSubsetOptions(df)} : df \in Frames}

\* the columns expand hands to _expand (mapping.rs 212-223)
ParColumns(in) ==
    validate_infer_dataframe_columns(Resolution(in.template).template.signature, in.df,
                                     InputTypes).v

ParSubsets(in) == IF in.us.some THEN in.us.v ELSE <<>>

ParPatterns(in) == Resolution(in.template).template.pattern_list

InitPar == InitOnce

\* lines 279-324: the frames of the instances are built, the workers start
StartWorkers ==
    /\ last.op = "new"
    /\ \E in \in ParInputs :
          /\ ~InstanceFramesPanic(ParPatterns(in), in.df, ParColumns(in))
          /\ last' = [op |-> "workers", in |-> in, finished |-> <<>>, slots |-> <<>>]
    /\ UNCHANGED <<caching_folder, deduplicated, df_map, files, next_path, next_uuid,
                   contributed, template_dataset, ops, io_failures>>

\* lines 327-348: one of the workers still running returns
FinishWorker ==
    /\ last.op = "workers"
    /\ \E n \in 1..Len(ParPatterns(last.in)) :
          /\ n \notin Range(last.finished)
          /\ last' = [last EXCEPT
                         !.finished = Append(@, n),
                         !.slots = (n :> ExpandWorker(template_dataset, ParPatterns(last.in)[n],
                                                      last.in.df, ParColumns(last.in), <<>>,
                                                      ParSubsets(last.in))) @@ @]
    /\ UNCHANGED <<caching_folder, deduplicated, df_map, files, next_path, next_uuid,
                   contributed, template_dataset, ops, io_failures>>

\* lines 350-358 and 255: the results are collected, flattened and processed
CollectWorkers ==
    /\ last.op = "workers"
    /\ Len(last.finished) = Len(ParPatterns(last.in))
    /\ LET Done(result_vec, r) ==
                /\ SetStore(r.st)
                /\ last' = [op |-> "expand", in |-> last.in, finished |-> last.finished,
                            result_vec |-> result_vec, kind |-> r.kind, err |-> r.err]
            Then(result_vec) ==
                Done(result_vec,
                     IF result_vec.kind # "Ok"
                     THEN [st |-> Store(NoFail), kind |-> result_vec.kind,
                           err |-> result_vec.err]
                     ELSE process_results(Store(NoFail), result_vec.v, next_uuid + 1))
        IN  Then(FlattenOk(Collected(ParCollect(last.finished, last.slots))))
    /\ next_uuid' = next_uuid + 1
    /\ ops' = ops + 1
    /\ UNCHANGED <<caching_folder, template_dataset, io_failures>>

NextPar == StartWorkers \/ FinishWorker \/ CollectWorkers

SpecPar == InitPar /\ [][NextPar]_vars

\* the leaf emissions of the instances, one instance after the other, each
\* with the emissions of its own instances in their order
InPatternOrder(in) ==
    flatten([n \in 1..Len(ParPatterns(in)) |->
                ExpandWorker(template_dataset, ParPatterns(in)[n], in.df, ParColumns(in),
                             <<>>, ParSubsets(in)).v])

\* the store after the same expansion with the workers run one after the other
Sequential(in) ==
    expand(Triplestore_new(caching_folder), template_dataset, in.template, in.df,
           InputTypes, in.us, 0, 1, 1)

\* C17: whatever order the workers finished in, the leaf emissions _expand
\* returns follow the pattern-list order, depth first, and the batches are
\* installed into the buckets in that order: the result and the store are
\* those of the run whose workers finish one after the other.
C17_EmissionsInPatternOrder ==
    last.op = "expand" =>
        /\ last.kind = Sequential(last.in).kind
        /\ last.result_vec.kind = "Ok" => last.result_vec.v = InPatternOrder(last.in)
        /\ df_map = Sequential(last.in).st.df_map
        /\ files = Sequential(last.in).st.files

\* the second worker finished first, and the bucket (p, IRI) holds the batch of
\* the first instance before the batch of the second
C17_Witness ==
    /\ last.op = "expand" /\ last.kind = "Ok"
    /\ last.in.template = Str("h", "O")
    /\ last.finished = <<2, 1>>
    /\ \E k \in Buckets :
          Rows(k) = <<[subject |-> "a", object |-> "x"], [subject |-> "a", object |-> "y"],
                     [subject |-> "x", object |-> "a"], [subject |-> "y", object |-> "a"]>>

(***************************************************************************)
(* create_remapped over instances with list expanders and frames with list *)
(* columns.                                                                *)
(***************************************************************************)
\* the callee h:Z [?x, ?y1, ?y2]
RemapSignature ==
    [template_name |-> Str("h", "Z"),
     parameter_list |-> <<Parameter("x", None), Parameter("y1", None), Parameter("y2", None)>>]

ListExpanders == {"Cross", "ZipMin", "ZipMax"}

\* h:Z(?s or c, ?o1, ?o2), each of ?o1 and ?o2 marked for list expansion or
\* not; an instance with a list expander marks at least one argument
RemapInstances ==
    {i \in {Instance(le, Str("h", "Z"),
                     <<first, Argument(e1, Variable("o1")), Argument(e2, Variable("o2"))>>) :
                le \in ListExpanders \cup {None},
                first \in {Arg(Variable("s")), Arg(ConstantTerm(ConstantIRI("c")))},
                e1 \in BOOLEAN, e2 \in BOOLEAN} :
        i.list_expander = None \/ \E a \in Range(i.argument_list) : a.list_expand}

\* the lists of a cell: empty, one element, two elements, a null element
ListCells == {<<>>, <<"x">>, <<"x", "y">>, <<"x", Null>>}

RemapRow(subject, l1, l2) ==
    [c \in {"s", "o1", "o2"} |-> IF c = "s" THEN subject ELSE IF c = "o1" THEN l1 ELSE l2]

\* the caller's frames: every row of one pair of lists, and two rows
RemapFrames ==
    {DataFrame(<<"s", "o1", "o2">>, <<RemapRow("a", l1, l2)>>) :
        l1 \in ListCells, l2 \in ListCells}
    \cup {DataFrame(<<"s", "o1", "o2">>, <<RemapRow("a", l, l), RemapRow("b", <<"x">>, <<"x">>)>>) :
             l \in {<<"x", "y">>}}
    \cup {DataFrame(<<"s", "o1", "o2">>,
                    <<RemapRow("a", <<"x", "y">>, <<"x">>), RemapRow("b", <<"x">>, <<"x">>)>>)}

RemapDynamicColumns == [c \in {"s", "o1", "o2"} |-> PrimitiveColumn(IRI, None)]

RemapUniqueSubsets ==
    {<<>>, <<<<"s">>>>, <<<<"s", "o1">>>>, <<<<"s">>, <<"o2">>>>}

RemapInputs ==
    {[instance |-> i, df |-> df, unique_subsets |-> us] :
        i \in RemapInstances, df \in RemapFrames, us \in RemapUniqueSubsets}

\* create_remapped as _expand calls it: on the series of the instance's
\* variables, with the caller's columns and subsets
RemapResult(in) ==
    create_remapped(in.instance, RemapSignature, InstanceFrame(in.instance, in.df),
                    RemapDynamicColumns, <<>>, in.unique_subsets)

InitRemap ==
    /\ caching_folder = None
    /\ deduplicated = Triplestore_new(caching_folder).deduplicated
    /\ df_map = Triplestore_new(caching_folder).df_map
    /\ files = <<>>
    /\ next_path = 0
    /\ next_uuid = 0
    /\ contributed = <<>>
    /\ template_dataset = [templates |-> Templates, prefix_map |-> PrefixMap]
    /\ last = [op |-> "new"]
    /\ ops = 0
    /\ io_failures = 0

Remap ==
    /\ last.op = "new"
    /\ \E in \in RemapInputs :
          last' = [op |-> "create_remapped", in |-> in, out |-> RemapResult(in)]
    /\ UNCHANGED <<caching_folder, deduplicated, df_map, files, next_path, next_uuid,
                   contributed, template_dataset, ops, io_failures>>

NextRemap == Remap

SpecRemap == InitRemap /\ [][NextRemap]_vars

\* the callee columns the instance list-expands
Expanded(i) ==
    {RemapSignature.parameter_list[k].stottr_variable :
        k \in {k \in 1..Len(i.argument_list) : i.argument_list[k].list_expand}}

\* C13: when an instance list-expands two columns whose lists in the input
\* row have different lengths, ZipMin gives as many rows as the shortest list
\* and none with a null, ZipMax as many as the longest list with the shorter
\* list padded by null, and Cross the cartesian product.  Stated for a frame
\* of one row whose lists are not empty and hold no null.
C13_ListExpanders ==
    (/\ last.op = "create_remapped"
     /\ last.in.instance.list_expander # None
     /\ Expanded(last.in.instance) = {"y1", "y2"}
     /\ height(last.in.df) = 1
     /\ Len(last.in.df.rows[1].o1) # Len(last.in.df.rows[1].o2)
     /\ last.in.df.rows[1].o1 # <<>> /\ last.in.df.rows[1].o2 # <<>>
     /\ Null \notin Range(last.in.df.rows[1].o1) \cup Range(last.in.df.rows[1].o2)) =>
        LET le == last.in.instance.list_expander
            l1 == last.in.df.rows[1].o1
            l2 == last.in.df.rows[1].o2
            Padded(l, k) == IF k <= Len(l) THEN l[k] ELSE Null
        IN  /\ last.out.kind = "Ok"
            /\ le = "ZipMin" =>
                  /\ height(last.out.v.df) = Min(Len(l1), Len(l2))
                  /\ \A r \in Range(last.out.v.df.rows) : r.y1 # Null /\ r.y2 # Null
            /\ le = "ZipMax" =>
                  /\ height(last.out.v.df) = Max(Len(l1), Len(l2))
                  /\ \A k \in 1..height(last.out.v.df) :
                        /\ last.out.v.df.rows[k].y1 = Padded(l1, k)
                        /\ last.out.v.df.rows[k].y2 = Padded(l2, k)
            /\ le = "Cross" =>
                  /\ height(last.out.v.df) = Len(l1) * Len(l2)
                  /\ {<<r.y1, r.y2>> : r \in Range(last.out.v.df.rows)}
                         = Range(l1) \X Range(l2)

\* Cross over two columns of non-empty lists gives the cartesian product
C13_CrossIsProduct ==
    (/\ last.op = "create_remapped"
     /\ last.in.instance.list_expander = "Cross"
     /\ Expanded(last.in.instance) = {"y1", "y2"}
     /\ height(last.in.df) = 1
     /\ last.in.df.rows[1].o1 # <<>> /\ last.in.df.rows[1].o2 # <<>>) =>
        /\ last.out.kind = "Ok"
        /\ height(last.out.v.df) = Len(last.in.df.rows[1].o1) * Len(last.in.df.rows[1].o2)
        /\ {<<r.y1, r.y2>> : r \in Range(last.out.v.df.rows)}
               = Range(last.in.df.rows[1].o1) \X Range(last.in.df.rows[1].o2)

\* the input with another list expander on the instance
WithExpander(in, le) == [in EXCEPT !.instance.list_expander = le]

\* the one callee column an instance list-expands
TheExpanded(i) == CHOOSE c \in Expanded(i) : TRUE

\* the caller column handed to it
SourceOf(c) == IF c = "y1" THEN "o1" ELSE "o2"

\* no list of the column is empty or holds a null
NoNullElement(df, c) ==
    \A n \in 1..height(df) : df.rows[n][c] # <<>> /\ Null \notin Range(df.rows[n][c])

OneListExpanded(in) ==
    /\ in.instance.list_expander # None
    /\ Cardinality(Expanded(in.instance)) = 1

\* C14 as claimed: with exactly one list-expanded column Cross, ZipMin and
\* ZipMax give the same remapped batch for every input, empty lists and null
\* elements included.
C14_SingleColumnSameBatch ==
    (last.op = "create_remapped" /\ OneListExpanded(last.in)) =>
        last.out = RemapResult(WithExpander(last.in, "Cross"))

\* C14 amended: with exactly one list-expanded column Cross and ZipMax give
\* the same remapped batch for every input, and ZipMin gives that batch
\* without the rows whose expanded cell is null; the three give the same batch
\* for every input in which no list is empty and none holds a null element.
C14_SingleColumnExpanders ==
    (last.op = "create_remapped" /\ OneListExpanded(last.in)) =>
        LET cross == RemapResult(WithExpander(last.in, "Cross"))
            c == TheExpanded(last.in.instance)
        IN  /\ cross.kind = "Ok"
            /\ last.in.instance.list_expander \in {"Cross", "ZipMax"} => last.out = cross
            /\ last.in.instance.list_expander = "ZipMin" =>
                  last.out = Ok([cross.v EXCEPT !.df = drop_nulls_subset(@, <<c>>)])
            /\ NoNullElement(last.in.df, SourceOf(c)) => last.out = cross

\* ZipMin over one column has dropped a row that Cross keeps
C14_Witness ==
    /\ last.op = "create_remapped"
    /\ OneListExpanded(last.in)
    /\ last.in.instance.list_expander = "ZipMin"
    /\ last.out.kind = "Ok"
    /\ height(last.out.v.df) < height(RemapResult(WithExpander(last.in, "Cross")).v.df)

\* the arguments of an instance that pass x as a variable
PassedAt(i, x) ==
    {k \in 1..Len(i.argument_list) :
        i.argument_list[k].term.kind = "Variable" /\ i.argument_list[k].term.name = x}

\* a subset under the names of the callee parameters its variables are passed to
RenamedSubset(i, us) ==
    [m \in 1..Len(us) |->
        RemapSignature.parameter_list[CHOOSE k \in PassedAt(i, us[m]) :
                                         \A j \in PassedAt(i, us[m]) : k <= j].stottr_variable]

\* C15 as claimed: a subset is passed on if and only if every variable in it
\* is passed as a variable argument that is not list-expanded, under the names
\* of the callee, also when another argument of the instance is list-expanded.
C15_SubsetSurvivesIffPlain ==
    (last.op = "create_remapped" /\ last.out.kind = "Ok") =>
        LET i == last.in.instance
            Plain(us) == \A x \in Range(us) :
                            \E k \in PassedAt(i, x) : ~i.argument_list[k].list_expand
        IN  /\ \A us \in Range(last.in.unique_subsets) :
                  Plain(us) => RenamedSubset(i, us) \in Range(last.out.v.unique_subsets)
            /\ \A t \in Range(last.out.v.unique_subsets) :
                  \E us \in Range(last.in.unique_subsets) :
                      Plain(us) /\ t = RenamedSubset(i, us)

\* C15 amended: a subset is passed on if and only if the instance has no list
\* expander and every variable in it is passed as a variable argument, under
\* the names of the callee; with a list expander on the instance every subset
\* is dropped.
C15_SubsetSurvivesWithoutExpander ==
    (last.op = "create_remapped" /\ last.out.kind = "Ok") =>
        LET i == last.in.instance
            Passed(us) == \A x \in Range(us) : PassedAt(i, x) # {}
        IN  /\ i.list_expander # None => last.out.v.unique_subsets = <<>>
            /\ i.list_expander = None =>
                  /\ \A us \in Range(last.in.unique_subsets) :
                        Passed(us) => RenamedSubset(i, us) \in Range(last.out.v.unique_subsets)
                  /\ \A t \in Range(last.out.v.unique_subsets) :
                        \E us \in Range(last.in.unique_subsets) :
                            Passed(us) /\ t = RenamedSubset(i, us)

\* of two subsets one is handed on renamed and the other dropped
C15_Witness ==
    /\ last.op = "create_remapped"
    /\ last.out.kind = "Ok"
    /\ last.in.instance.list_expander = None
    /\ Len(last.in.unique_subsets) = 2
    /\ last.out.v.unique_subsets = <<<<"y2">>>>

(***************************************************************************)
(* Queries over a store filled by one or two expansions.                   *)
(***************************************************************************)
MaxLoads == 2

LoadInputs ==
    {[template |-> Str("h", "A"), df |-> df, us |-> NoneV] : df \in OnceFrames}

\* the query forms, and CONSTRUCT templates with a variable in no position, in
\* the predicate position only, and in the subject and object positions
SparqlQueries ==
    Queries
    \cup {Query("Describe", QueryPattern("p", IRI), <<>>),
          \* CONSTRUCT { <a> <q> <b> } WHERE { ?s <p> ?o }
          Query("Construct", QueryPattern("p", IRI),
                <<TriplePattern(TermNamedNode("a"), TermNamedNode("q"), TermNamedNode("b"))>>),
          \* CONSTRUCT { <a> ?s <b> } WHERE { ?s <p> ?o }
          Query("Construct", QueryPattern("p", IRI),
                <<TriplePattern(TermNamedNode("a"), TermVariable("s"), TermNamedNode("b"))>>),
          \* CONSTRUCT { <a> <q> <b> . ?o <q> ?s } WHERE { ?s <p> ?o }
          Query("Construct", QueryPattern("p", IRI),
                <<TriplePattern(TermNamedNode("a"), TermNamedNode("q"), TermNamedNode("b")),
                  TriplePattern(TermVariable("o"), TermNamedNode("q"), TermVariable("s"))>>)}

InitSparql ==
    /\ caching_folder \in {None, "folder"}
    /\ deduplicated = Triplestore_new(caching_folder).deduplicated
    /\ df_map = Triplestore_new(caching_folder).df_map
    /\ files = <<>>
    /\ next_path = 0
    /\ next_uuid = 0
    /\ contributed = <<>>
    /\ template_dataset = [templates |-> Templates, prefix_map |-> PrefixMap]
    /\ last = [op |-> "new"]
    /\ ops = 0
    /\ io_failures = 0

Load ==
    /\ last.op \in {"new", "expand"}
    /\ ops < MaxLoads
    /\ \E in \in LoadInputs :
        LET Done(r) == /\ SetStore(r.st)
                       /\ last' = [op |-> "expand", kind |-> r.kind, err |-> r.err]
        IN  Done(expand(Store(NoFail), template_dataset, in.template, in.df,
                        InputTypes, in.us, 0, next_uuid + 1, 1))
    /\ next_uuid' = next_uuid + 1
    /\ ops' = ops + 1
    /\ UNCHANGED <<caching_folder, template_dataset, io_failures>>

QueryOnce ==
    /\ last.op \in {"new", "expand"}
    /\ \E q \in SparqlQueries, env \in Environments(~deduplicated) :
        LET Done(r) == /\ SetStore(r.st)
                       /\ last' = [op |-> "query", q |-> q, kind |-> r.kind, err |-> r.err,
                                   parsed |-> r.parsed, v |-> r.v]
                       /\ io_failures' = Failures(env.io_fail)
        IN  Done(query(Store(env.io_fail), q, env.order, env.nshards))
    /\ UNCHANGED <<caching_folder, template_dataset, next_uuid, ops>>

ConstructUpdateOnce ==
    /\ last.op \in {"new", "expand"}
    /\ \E q \in SparqlQueries :
        LET minted(r) == IF q.form = "Construct" /\ r.kind # "Err" THEN Len(q.template) ELSE 0
            Done(r) == /\ SetStore(r.st)
                       /\ last' = [op |-> "construct_update", q |-> q, kind |-> r.kind,
                                   err |-> r.err]
                       /\ next_uuid' = next_uuid + minted(r)
        IN  Done(construct_update(Store(NoFail), q, next_uuid))
    /\ UNCHANGED <<caching_folder, template_dataset, ops, io_failures>>

NextSparql == Load \/ QueryOnce \/ ConstructUpdateOnce

SpecSparql == InitSparql /\ [][NextSparql]_vars

\* the solutions of { ?s <p> ?o } over the store, counted
SolutionHeight(q) ==
    LET k == Key(q.pattern.pred, q.pattern.object_type)
    IN  IF k \in Buckets THEN Len(Rows(k)) ELSE 0

AnyVariable(t) ==
    "Variable" \in {t.subject.kind, t.predicate.kind, t.object.kind}

\* every spill file a bucket names exists: no deduplicate has failed between
\* the removal of a bucket's files and the writing of the new ones
SpillFilesExist ==
    \A k \in Buckets :
        df_map[k].df_paths.some => \A p \in Range(df_map[k].df_paths.v) : p \in DOMAIN files

\* C19: a CONSTRUCT query returns one pair of batch and object type per
\* template triple, in the order of the template; the batch has one row when
\* the template triple has no variable, and as many rows as the solution has
\* when it has a variable in the subject, predicate or object position.
C19_ConstructBatches ==
    (/\ last.op = "query" /\ last.q.form = "Construct" /\ last.parsed /\ last.kind # "Err"
     /\ SpillFilesExist) =>
        /\ last.kind = "Ok"
        /\ Len(last.v) = Len(last.q.template)
        /\ \A n \in 1..Len(last.v) :
              height(last.v[n].df) = IF AnyVariable(last.q.template[n])
                                     THEN SolutionHeight(last.q) ELSE 1

\* the same for templates whose triples have no variable in the predicate
\* position
C19_SubjectObjectVariables ==
    (/\ last.op = "query" /\ last.q.form = "Construct" /\ last.parsed /\ last.kind # "Err"
     /\ SpillFilesExist
     /\ \A t \in Range(last.q.template) : t.predicate.kind # "Variable") =>
        /\ last.kind = "Ok"
        /\ Len(last.v) = Len(last.q.template)
        /\ \A n \in 1..Len(last.v) :
              height(last.v[n].df) = IF AnyVariable(last.q.template[n])
                                     THEN SolutionHeight(last.q) ELSE 1

\* C20: query returns QueryTypeNotSupported for every parsed query that is
\* neither SELECT nor CONSTRUCT, and construct_update returns it for every
\* parsed query that is not CONSTRUCT, SELECT included, and then leaves the
\* store as it was.
C20_UnsupportedForms ==
    [][ /\ (/\ last'.op = "query" /\ last'.parsed
            /\ last'.q.form \notin {"Select", "Construct"}) =>
              last'.kind = "Err" /\ last'.err = "QueryTypeNotSupported"
        /\ (/\ last'.op = "construct_update"
            /\ last'.q.form \notin {"Construct", "ParseError"}) =>
              /\ last'.kind = "Err" /\ last'.err = "QueryTypeNotSupported"
              /\ df_map' = df_map /\ files' = files /\ deduplicated' = deduplicated ]_vars

\* construct_update of a SELECT over a store that holds triples
C20_Witness ==
    /\ last.op = "construct_update"
    /\ last.q.form = "Select"
    /\ last.err = "QueryTypeNotSupported"
    /\ \E k \in Buckets : Len(Rows(k)) = 2

(***************************************************************************)
(* resolve_template over every short name.                                 *)
(***************************************************************************)
NameChars == {"e", "h", "x", ":", "A", "X"}

Names == SeqsUpTo(NameChars, MaxNameLen)

\* the dataset of the runs, and one that also has a template whose name starts
\* with a prefix of the map
ResolveDatasets ==
    {[templates |-> Templates, prefix_map |-> PrefixMap],
     [templates |-> Append(Templates, Template(Str("e", "A"), SOParams, <<>>)),
      prefix_map |-> PrefixMap]}

InitResolve ==
    /\ caching_folder = None
    /\ deduplicated = Triplestore_new(caching_folder).deduplicated
    /\ df_map = Triplestore_new(caching_folder).df_map
    /\ files = <<>>
    /\ next_path = 0
    /\ next_uuid = 0
    /\ contributed = <<>>
    /\ template_dataset \in ResolveDatasets
    /\ last = [op |-> "new", s |-> <<>>, resolved |-> <<>>]
    /\ ops = 0
    /\ io_failures = 0

Resolve ==
    /\ last.op = "new"
    /\ \E s \in Names :
          last' = [op |-> "resolve_template", s |-> s,
                   resolved |-> resolve_template(template_dataset, s)]
    /\ UNCHANGED <<caching_folder, deduplicated, df_map, files, next_path, next_uuid,
                   contributed, template_dataset, ops, io_failures>>

NextResolve == Resolve

SpecResolve == InitResolve /\ [][NextResolve]_vars

\* the characters of s before its first colon, and those after it
BeforeColon(s) ==
    IF \E i \in 1..Len(s) : s[i] = ":"
    THEN SubSeq(s, 1, (CHOOSE i \in 1..Len(s) : s[i] = ":" /\ \A j \in 1..(i - 1) : s[j] # ":") - 1)
    ELSE s

AfterColon(s) == SubSeq(s, Len(BeforeColon(s)) + 2, Len(s))

\* C10: a name that is a template's name resolves to that template, whatever
\* the prefix map says; any other name whose part before the first colon is a
\* prefix of the map resolves to the template named by the prefix's IRI
\* followed by the rest of the name, and fails with
\* NoTemplateForTemplateNameFromPrefix, carrying that resolved name, when there
\* is none; any other name fails with TemplateNotFound, carrying the name.
C10_ResolveTemplate ==
    last.op = "resolve_template" =>
        LET s == last.s
            r == last.resolved
            resolved == template_dataset.prefix_map[BeforeColon(s)] \o AfterColon(s)
        IN  IF get(template_dataset, s).some
            THEN r.ok /\ r.template = get(template_dataset, s).v
            ELSE IF BeforeColon(s) \in DOMAIN template_dataset.prefix_map
            THEN IF get(template_dataset, resolved).some
                 THEN r.ok /\ r.template = get(template_dataset, resolved).v
                 ELSE /\ ~r.ok
                      /\ r.err = "NoTemplateForTemplateNameFromPrefix"
                      /\ r.name = resolved
            ELSE ~r.ok /\ r.err = "TemplateNotFound" /\ r.name = s

\* a name that is a template's name and also starts with a prefix of the map,
\* whose IRI followed by the rest names another template
C10_Witness ==
    /\ last.op = "resolve_template"
    /\ last.s = Str("e", "A")
    /\ get(template_dataset, Str("e", "A")).some
    /\ get(template_dataset, Str("h", "A")).some
    /\ last.resolved.ok
    /\ last.resolved.template.signature.template_name = Str("e", "A")

(***************************************************************************)
(* add_triples_vec of one batch that carries its predicates in a verb       *)
(* column.                                                                 *)
(***************************************************************************)
MaxBatchRows == 2

VerbRow(subject, verb, object) ==
    [c \in {"subject", "verb", "object"} |->
        IF c = "subject" THEN subject ELSE IF c = "verb" THEN verb ELSE object]

\* rows over two predicates, with a null in any position
VerbRows ==
    {VerbRow(s, v, o) : s \in {"a", Null}, v \in {"p", "q", Null}, o \in {"x", Null}}

VerbBatches ==
    {DataFrame(<<"subject", "verb", "object">>, rows) : rows \in SeqsUpTo(VerbRows, MaxBatchRows)}

\* has_unique_subset is set only for a batch whose rows differ
VerbInputs ==
    {TriplesToAdd(df, object_type, None, None, has_unique_subset) :
        df \in VerbBatches, object_type \in {IRI, Literal(XSD_STRING)},
        has_unique_subset \in BOOLEAN} \
    {t \in {TriplesToAdd(df, object_type, None, None, TRUE) :
                df \in VerbBatches, object_type \in {IRI, Literal(XSD_STRING)}} :
        HasDuplicate(t.df.rows)}

InitPrepare ==
    /\ caching_folder \in {None, "folder"}
    /\ deduplicated = Triplestore_new(caching_folder).deduplicated
    /\ df_map = Triplestore_new(caching_folder).df_map
    /\ files = <<>>
    /\ next_path = 0
    /\ next_uuid = 0
    /\ contributed = <<>>
    /\ template_dataset = [templates |-> Templates, prefix_map |-> PrefixMap]
    /\ last = [op |-> "new"]
    /\ ops = 0
    /\ io_failures = 0

AddVerbBatch ==
    /\ last.op = "new"
    /\ \E t \in VerbInputs :
        LET Done(r) ==
                /\ SetStore(r.st)
                /\ last' = [op |-> "add_triples_vec", t |-> t, panic |-> r.panic,
                            emitted |-> prepare_triples(t.df, t.object_type, t.language_tag,
                                                        t.static_verb_column,
                                                        t.has_unique_subset)]
        IN  Done(add_triples_vec(Store(NoFail), <<t>>, next_uuid + 1))
    /\ next_uuid' = next_uuid + 1
    /\ ops' = ops + 1
    /\ UNCHANGED <<caching_folder, template_dataset, io_failures>>

NextPrepare == AddVerbBatch

SpecPrepare == InitPrepare /\ [][NextPrepare]_vars

\* the rows of a batch with a subject and an object, and those of one verb
Complete(rows) ==
    LET NoNull(r) == r.subject # Null /\ r.object # Null IN SelectSeq(rows, NoNull)

OfVerb(rows, verb) ==
    LET Same(r) == r.verb = verb
        rs == SelectSeq(Complete(rows), Same)
    IN  [n \in 1..Len(rs) |-> [c \in {"subject", "object"} |-> rs[n][c]]]

\* the verb values that have a row with a subject and an object
VerbValues(rows) == {r.verb : r \in Range(Complete(rows))} \ {Null}

\* what the claim says of one batch: one TripleDF per verb value with its
\* complete rows, each routed to the bucket of its verb and the object type
OnePerVerb(t, emitted) ==
    /\ Len(emitted) = Cardinality(VerbValues(t.df.rows))
    /\ \A v \in VerbValues(t.df.rows) :
          /\ \E n \in 1..Len(emitted) :
                /\ emitted[n].predicate = v
                /\ emitted[n].object_type = t.object_type
                /\ select(emitted[n].df, <<"subject", "object">>).rows
                       = IF t.has_unique_subset THEN OfVerb(t.df.rows, v)
                         ELSE UniqueRows(OfVerb(t.df.rows, v))
          /\ Key(v, t.object_type) \in Buckets
          /\ [n \in 1..Len(Rows(Key(v, t.object_type))) |->
                 [c \in {"subject", "object"} |-> Rows(Key(v, t.object_type))[n][c]]]
                 = IF t.has_unique_subset THEN OfVerb(t.df.rows, v)
                   ELSE UniqueRows(OfVerb(t.df.rows, v))
    /\ Buckets = {Key(v, t.object_type) : v \in VerbValues(t.df.rows)}
    /\ \A k \in Buckets :
          /\ Rows(k) # <<>>
          /\ \A r \in Range(Rows(k)) : r.subject # Null /\ r.object # Null

\* C26: a batch without static predicate gives one TripleDF per verb value
\* that has a row with a subject and an object, holding exactly those rows
\* (distinct when has_unique_subset is false), in the bucket of that verb and
\* the batch's object type; no empty batch and no row with a null subject or
\* object is installed.
C26_OneTripleDFPerVerb ==
    last.op = "add_triples_vec" =>
        /\ ~last.panic
        /\ ~last.emitted.panic
        /\ OnePerVerb(last.t, last.emitted.v)

\* the same for the batches whose verb column holds no null
C26_OnePerVerbWithoutNullVerb ==
    (last.op = "add_triples_vec" /\ \A r \in Range(last.t.df.rows) : r.verb # Null) =>
        /\ ~last.panic
        /\ ~last.emitted.panic
        /\ OnePerVerb(last.t, last.emitted.v)

\* a null in the verb column aborts the call, whatever the other rows hold
C26_NullVerbPanics ==
    (last.op = "add_triples_vec" /\ \E r \in Range(last.t.df.rows) : r.verb = Null) =>
        last.panic /\ Buckets = {}

(***************************************************************************)
(* Mapping::expand_default (mapping/default.rs 17-146).                    *)
(***************************************************************************)
DEFAULT_TEMPLATE_PREFIX == <<"http", ":", "//example.net/ns#">>

DEFAULT_PREDICATE_URI_PREFIX == <<"http", ":", "//example.net/ns/predicate#">>

\* the pieces of text a scheme can be made of
SchemeLetters == {"http", "h", "e", "x"}

\* NamedNode::new(..) of lines 116 and 136: the text is an absolute IRI, that
\* is, letters and then a colon; what the texts handed in hold after the
\* colon is allowed in an IRI
IsIri(s) ==
    \E n \in 2..Len(s) : s[n] = ":" /\ \A m \in 1..(n - 1) : s[m] \in SchemeLetters

XSD_ANY_URI == "xsd:anyURI"

\* lines 28-97: the parameters pushed for one column of polars type dt; the
\* primary key column gets one typed xsd:anyURI and, not being a foreign
\* key, a second one without type; a key column of lists reaches todo!()
DefaultParameters(c, dt, pk_col, fk_cols) ==
    IF dt = "List" /\ (c = pk_col \/ c \in fk_cols) THEN Panic
    ELSE Ok((IF c = pk_col THEN <<Parameter(c, XSD_ANY_URI)>> ELSE <<>>)
            \o (IF c \in fk_cols THEN <<Parameter(c, XSD_ANY_URI)>>
                ELSE <<Parameter(c, None)>>))

\* col(c).cast(DataType::Utf8) of one cell: a null stays null, a Boolean
\* becomes true or false, an integer its decimal digits
CastUtf8(v) ==
    LET text == ToString(v)
    IN  IF text = ToString(Null) THEN Null
        ELSE IF text = "TRUE" THEN "true"
        ELSE IF text = "FALSE" THEN "false"
        ELSE text

\* lines 37-47 and 65-75: a key column that is not Utf8 is cast to Utf8
CastKeys(df, schema, pk_col, fk_cols) ==
    LET Cast(c) == (c = pk_col \/ c \in fk_cols) /\ schema[c] # "Utf8"
    IN  DataFrame(df.cols,
                  [n \in 1..Len(df.rows) |->
                      [c \in Range(df.cols) |->
                          IF Cast(c) THEN CastUtf8(df.rows[n][c]) ELSE df.rows[n][c]]])

\* lines 99-127: one ottr:Triple(?pk, <prefix + c>, ?c) per column that is
\* neither the primary key nor a foreign key; a predicate that is no IRI
\* makes the unwrap of line 116 panic
DefaultPatterns(c, pk_col, fk_cols, use_predicate_uri_prefix) ==
    IF c # pk_col /\ c \notin fk_cols
    THEN IF ~IsIri(use_predicate_uri_prefix \o <<c>>) THEN Panic
         ELSE Ok(<<Instance(None, OTTR_TRIPLE,
                           <<Arg(Variable(pk_col)),
                             Arg(ConstantTerm(ConstantIRI(use_predicate_uri_prefix
                                                          \o <<c>>))),
                             Arg(Variable(c))>>)>>)
    ELSE Ok(<<>>)

\* lines 28-142: the parameters, then the patterns, then the template under
\* the name prefix + uuid; a name that is no IRI makes the unwrap of line 136
\* panic
DefaultTemplate(df, schema, pk_col, fk_cols, use_template_prefix, use_predicate_uri_prefix, template_uuid) ==
    LET params == [n \in 1..Len(df.cols) |->
                      DefaultParameters(df.cols[n], schema[df.cols[n]], pk_col, fk_cols)]
        patterns == [n \in 1..Len(df.cols) |->
                        DefaultPatterns(df.cols[n], pk_col, fk_cols,
                                        use_predicate_uri_prefix)]
    IN  IF \E n \in 1..Len(df.cols) : params[n].kind = "Panic" THEN Panic
        ELSE IF \E n \in 1..Len(df.cols) : patterns[n].kind = "Panic" THEN Panic
        ELSE IF ~IsIri(use_template_prefix \o <<template_uuid>>) THEN Panic
        ELSE Ok(Template(use_template_prefix \o <<template_uuid>>,
                         flatten([n \in 1..Len(df.cols) |-> params[n].v]),
                         flatten([n \in 1..Len(df.cols) |-> patterns[n].v])))

\* [st, ds, kind, err]: a key column of lists, a predicate or a template
\* name that is no IRI aborts the call before anything is pushed; otherwise
\* the template is pushed onto the dataset (line 143) before expand is
\* called on the cast frame (line 144)
expand_default(st, ds, df, schema, dtypes, pk_col, fk_cols, template_prefix, predicate_prefix_uri, unique_subsets_opt, est, call_uuid, template_uuid, passes) ==
    LET use_template_prefix ==
            IF template_prefix.some THEN template_prefix.v ELSE DEFAULT_TEMPLATE_PREFIX
        use_predicate_uri_prefix ==
            IF predicate_prefix_uri.some THEN predicate_prefix_uri.v
            ELSE DEFAULT_PREDICATE_URI_PREFIX
        Pushed(t) == [ds EXCEPT !.templates = Append(@, t)]
        Expanded_(t, r) == [st |-> r.st, ds |-> Pushed(t), kind |-> r.kind, err |-> r.err]
        Built(template) ==
            IF template.kind = "Panic"
            THEN [st |-> st, ds |-> ds, kind |-> "Panic", err |-> None]
            ELSE Expanded_(template.v,
                           expand(st, Pushed(template.v),
                                  template.v.signature.template_name,
                                  CastKeys(df, schema, pk_col, fk_cols), dtypes,
                                  unique_subsets_opt, est, call_uuid, passes))
    IN  Built(DefaultTemplate(df, schema, pk_col, fk_cols, use_template_prefix,
                              use_predicate_uri_prefix, template_uuid))

\* Uuid::new_v4() of the template name: the n-th minted
TemplateUuid(n) == CASE n = 1 -> "u1" [] n = 2 -> "u2" [] n = 3 -> "u3" [] OTHER -> "u4"

Utf8Schema == [c \in {"s", "o"} |-> "Utf8"]

\* the frames of expand, with s or o as the primary key, a primary key that
\* is no column, o as a foreign key or not, and prefixes that are left out,
\* an IRI, or no IRI
DefaultInputs ==
    {[df |-> df, schema |-> Utf8Schema, pk_col |-> pk, fk_cols |-> fk,
      template_prefix |-> tp, predicate_prefix_uri |-> pp] :
        df \in Frames, pk \in {"s", "z"}, fk \in {{}, {"o"}},
        tp \in {NoneV, Some(<<"h", ":">>), Some(<<"h">>), Some(<<>>)},
        pp \in {NoneV, Some(<<"pred", "/">>)}}

\* a frame with the key column s of one polars type and the text column o
KeyFrame(keys, dt, fk) ==
    [df |-> DataFrame(<<"s", "o">>,
                      [n \in 1..Len(keys) |->
                          [c \in {"s", "o"} |-> IF c = "s" THEN keys[n] ELSE "x"]]),
     schema |-> [c \in {"s", "o"} |-> IF c = "s" THEN dt ELSE "Utf8"],
     pk_col |-> "s", fk_cols |-> fk, template_prefix |-> NoneV,
     predicate_prefix_uri |-> NoneV]

\* frames whose key columns are not Utf8: a primary key of integers, one
\* with a null, one of Booleans, a primary key of lists, a foreign key of
\* lists
KeyTypeInputs ==
    <<KeyFrame(<<1, 2>>, "Int64", {}),
      KeyFrame(<<1, Null>>, "Int64", {}),
      KeyFrame(<<TRUE, FALSE>>, "Boolean", {}),
      KeyFrame(<<<<"a", "b">>>>, "List", {}),
      [df |-> DataFrame(<<"s", "o">>,
                        <<[c \in {"s", "o"} |-> IF c = "s" THEN "a" ELSE <<"x">>]>>),
       schema |-> [c \in {"s", "o"} |-> IF c = "s" THEN "Utf8" ELSE "List"],
       pk_col |-> "s", fk_cols |-> {"o"}, template_prefix |-> NoneV,
       predicate_prefix_uri |-> NoneV]>>

\* Mapping::expand_default of one input
ExpandDefaultInput(in) ==
    /\ \E env \in ExpandEnvironments(in.df) :
            LET Done(r) == /\ SetStore(r.st)
                           /\ template_dataset' = r.ds
                           /\ last' = Call("expand_default", r.kind, r.err, next_uuid + 1,
                                           FALSE)
                           /\ io_failures' = Failures(env.io_fail)
            IN  Done(expand_default(Store(env.io_fail), template_dataset, in.df, in.schema,
                                    InputTypes, in.pk_col, in.fk_cols, in.template_prefix,
                                    in.predicate_prefix_uri, NoneV, env.est,
                                    next_uuid + 1,
                                    TemplateUuid(Len(template_dataset.templates)
                                                 - Len(Templates) + 1),
                                    env.passes))
    /\ next_uuid' = next_uuid + 1
    /\ ops' = ops + 1
    /\ UNCHANGED <<caching_folder>>

ExpandDefault ==
    /\ Alive
    /\ ops < MaxCalls
    /\ \E in \in DefaultInputs : ExpandDefaultInput(in)

ExpandDefaultKeys ==
    /\ Alive
    /\ ops < MaxCalls
    /\ \E n \in 1..Len(KeyTypeInputs) : ExpandDefaultInput(KeyTypeInputs[n])

NextDefault == ExpandDefault \/ ExpandDefaultKeys \/ Deduplicate

SpecDefault == Init /\ [][NextDefault]_vars

\* C23: no operation of the Mapping adds, removes or changes a template of
\* the dataset it was constructed with, whether the operation succeeds or
\* fails.
C23_TemplateDatasetImmutable ==
    [][template_dataset' = template_dataset]_vars

\* every expand_default that gets to build its template appends it, also
\* when its expansion fails, and no template already in the dataset is
\* changed; one that aborts before, on a key column of lists or on a prefix
\* that gives no IRI, leaves the dataset as it was
C23_ExpandDefaultAppends ==
    [][ last'.op = "expand_default" =>
          \/ /\ Len(template_dataset'.templates) = Len(template_dataset.templates) + 1
             /\ SubSeq(template_dataset'.templates, 1, Len(template_dataset.templates))
                    = template_dataset.templates
             /\ template_dataset'.prefix_map = template_dataset.prefix_map
          \/ /\ last'.kind = "Panic"
             /\ template_dataset' = template_dataset ]_vars

(***************************************************************************)
(* SPARQL algebra over SolutionMappings: a triple pattern, Union           *)
(* (lazy_graph_patterns/union.rs) and LeftJoin                             *)
(* (lazy_graph_patterns/left_join.rs).                                     *)
(***************************************************************************)
SolutionMappings(mappings, columns, datatypes) ==
    [mappings |-> mappings, columns |-> columns, datatypes |-> datatypes]

\* the basic graph pattern { ?s <pred> ?o } over the bucket of one object type
Bgp(s, pred, object_type, o) ==
    [kind |-> "Bgp", s |-> s, pred |-> pred, object_type |-> object_type, o |-> o]

\* HashMap::insert of every entry of b into a: an entry of b replaces the
\* entry a has for the same variable
InsertAll(a, b) ==
    [v \in DOMAIN a \cup DOMAIN b |-> IF v \in DOMAIN b THEN b[v] ELSE a[v]]

\* the bucket's rows with its columns bound to the pattern's variables
Bindings(st, tp) ==
    LET k == Key(tp.pred, tp.object_type)
        rows == IF k \in DOMAIN st.df_map THEN BucketRows(st, st.df_map[k]) ELSE <<>>
    IN  [n \in 1..Len(rows) |->
            [v \in {tp.s, tp.o} |-> IF v = tp.s THEN rows[n]["subject"]
                                    ELSE rows[n]["object"]]]

\* inner join on the shared columns, a cross join when there is none
InnerJoin(df, cols, rows) ==
    LET shared == Range(df.cols) \cap Range(cols)
        Fresh(c) == c \notin Range(df.cols)
        out == df.cols \o SelectSeq(cols, Fresh)
        Compatible(l, r) == \A c \in shared : l[c] = r[c]
        Extended(l) ==
            LET Fits(r) == Compatible(l, r)
                rs == SelectSeq(rows, Fits)
            IN  [n \in 1..Len(rs) |->
                    [c \in Range(out) |-> IF c \in DOMAIN l THEN l[c] ELSE rs[n][c]]]
    IN  DataFrame(out, flatten([n \in 1..Len(df.rows) |-> Extended(df.rows[n])]))

\* a triple pattern: the bindings of the bucket, joined with the solutions
\* handed in on the variables they share; the pattern's variables are
\* recorded with the types of the bucket
lazy_triple_pattern(st, tp, solution_mappings) ==
    LET cols == <<tp.s, tp.o>>
        types == [v \in {tp.s, tp.o} |-> IF v = tp.o THEN tp.object_type ELSE IRI]
    IN  IF solution_mappings.some
        THEN Ok(SolutionMappings(
                    InnerJoin(solution_mappings.v.mappings, cols, Bindings(st, tp)),
                    solution_mappings.v.columns \cup {tp.s, tp.o},
                    InsertAll(solution_mappings.v.datatypes, types)))
        ELSE Ok(SolutionMappings(DataFrame(cols, Bindings(st, tp)), {tp.s, tp.o}, types))

\* lazy_union (union.rs 10-60): both sides are evaluated over the solutions
\* handed in; the plan of the result is the concat of the two plans, not yet
\* collected; assert_eq! aborts on a variable the sides type differently
lazy_union(st, left, right, solution_mappings) ==
    LET Merged(l, r) ==
            IF r.kind # "Ok" THEN r
            ELSE IF \E v \in DOMAIN l.datatypes \cap DOMAIN r.v.datatypes :
                       r.v.datatypes[v] # l.datatypes[v]
            THEN Panic
            ELSE Ok(SolutionMappings([concat |-> <<l.mappings, r.v.mappings>>],
                                     l.columns \cup r.v.columns,
                                     InsertAll(r.v.datatypes, l.datatypes)))
        Right(l) ==
            IF l.kind # "Ok" THEN l
            ELSE Merged(l.v, lazy_triple_pattern(st, right, solution_mappings))
    IN  Right(lazy_triple_pattern(st, left, solution_mappings))

\* Context::as_str of the left join's context: the name of the helper column
LeftJoinHelper == "LeftJoin"

\* with_column(lit(1).alias(helper)) and cumsum (left_join.rs 32-37): the
\* rows numbered from 1
WithRowIds(df, helper) ==
    DataFrame(Append(df.cols, helper),
              [n \in 1..Len(df.rows) |->
                  [c \in Range(df.cols) \cup {helper} |->
                      IF c = helper THEN n ELSE df.rows[n][c]]])

\* an expression ?var = value, None for no expression
Equals(var, value) == [var |-> var, value |-> value]

\* lines 51-63: the expression evaluated into a boolean column over the
\* right side, the rows filtered by it, the column dropped
FilterExpression(df, expression) ==
    LET Holds(r) == r[expression.v.var] = expression.v.value
    IN  IF expression.some THEN DataFrame(df.cols, SelectSeq(df.rows, Holds)) ELSE df

\* the left rows whose id is kept although a right row carries it
Unmatched_KeepsAll(left_df, right_df, helper) == left_df

\* lines 72-85: the left rows whose id no right row carries
Unmatched(left_df, right_df, helper) ==
    LET ids == {right_df.rows[n][helper] : n \in 1..Len(right_df.rows)}
        Alone(r) == r[helper] \notin ids
    IN  DataFrame(left_df.cols, SelectSeq(left_df.rows, Alone))

\* lines 87-97: a column of nulls for every column of the right frame the
\* left frame has not, and the columns in the right frame's order
PadNulls(left_df, right_df) ==
    DataFrame(right_df.cols,
              [n \in 1..Len(left_df.rows) |->
                  [c \in Range(right_df.cols) |->
                      IF c \in Range(left_df.cols) THEN left_df.rows[n][c] ELSE Null]])

\* DataFrame::drop of one column
drop(df, name) ==
    LET Other(c) == c # name
    IN  select(df, SelectSeq(df.cols, Other))

\* lazy_left_join (left_join.rs 12-115)
lazy_left_join(st, left, right, expression, solution_mappings) ==
    LET helper == LeftJoinHelper
        Joined(l, left_df, r) ==
            IF r.kind # "Ok" THEN r
            ELSE LET Out(right_df) ==
                         IF helper \notin Range(right_df.cols) THEN Panic
                         ELSE Ok(SolutionMappings(
                                 drop(concat(<<PadNulls(Unmatched(left_df, right_df, helper),
                                                        right_df),
                                               right_df>>), helper),
                                 l.columns \cup r.v.columns,
                                 InsertAll(l.datatypes, r.v.datatypes)))
                 IN  Out(FilterExpression(r.v.mappings, expression))
        Right(l, left_df) ==
            Joined(l, left_df,
                   lazy_triple_pattern(st, right,
                       Some(SolutionMappings(left_df, l.columns, l.datatypes))))
        Left(l) ==
            IF l.kind # "Ok" THEN l ELSE Right(l.v, WithRowIds(l.v.mappings, helper))
    IN  Left(lazy_triple_pattern(st, left, solution_mappings))

GraphPattern(kind, left, right, expression) ==
    [kind |-> kind, left |-> left, right |-> right, expression |-> expression]

\* lazy_graph_pattern on a Union or a LeftJoin of two triple patterns
lazy_pattern(st, gp, solution_mappings) ==
    IF gp.kind = "Union" THEN lazy_union(st, gp.left, gp.right, solution_mappings)
    ELSE lazy_left_join(st, gp.left, gp.right, gp.expression, solution_mappings)

\* mappings.collect() (sparql.rs 53, 78): the plan of a union is run here,
\* and the concat of two sides whose columns differ fails
collect(mappings) ==
    IF "concat" \notin DOMAIN mappings THEN Ok(mappings)
    ELSE IF mappings.concat[1].cols # mappings.concat[2].cols THEN Err("PolarsError")
    ELSE Ok(concat(mappings.concat))

\* query (sparql.rs 32-38) and query_parsed up to the collected solutions
\* (40-53): the unwrap of line 53 aborts when the plan cannot be run
query_pattern(st, gp, order, nshards) ==
    LET Collected_(d, r, df) ==
            IF df.kind # "Ok" THEN [st |-> d, kind |-> "Panic", err |-> None, v |-> <<>>]
            ELSE [st |-> d, kind |-> "Ok", err |-> None,
                  v |-> SolutionMappings(df.v, r.v.columns, r.v.datatypes)]
        Evaluated(d, r) ==
            IF r.kind # "Ok" THEN [st |-> d, kind |-> r.kind, err |-> r.err, v |-> r.v]
            ELSE Collected_(d, r, collect(r.v.mappings))
        Evaluate(d) == Evaluated(d, lazy_pattern(d, gp, NoneV))
        Deduplicated(r) == Evaluate(r.st)
    IN  IF ~st.deduplicated
        THEN Deduplicated(deduplicate(st, order, nshards))
        ELSE Evaluate(st)

(***************************************************************************)
(* Unions and left joins over a store of three predicates: p and q with    *)
(* IRI objects, r with xsd:string objects.                                 *)
(***************************************************************************)
AlgebraRow(s, o) == [c \in {"subject", "object"} |-> IF c = "subject" THEN s ELSE o]

AlgebraBatches ==
    {TriplesToAdd(DataFrame(<<"subject", "object">>, rows), k[2], None, k[1],
                  ~HasDuplicate(rows)) :
        k \in {<<"p", IRI>>, <<"q", IRI>>, <<"r", Literal(XSD_STRING)>>},
        rows \in {<<AlgebraRow("a", "x")>>,
                  <<AlgebraRow("a", "x"), AlgebraRow("b", "y")>>,
                  <<AlgebraRow("a", "x"), AlgebraRow("a", "y")>>}}

\* { ?s <p> ?o } against a second pattern that shares ?s, both variables,
\* both variables with another object type, or no variable; the expression
\* ?x = "x" where the second pattern binds ?x
RightPatterns ==
    {Bgp("s", "q", IRI, "x"), Bgp("s", "q", IRI, "o"),
     Bgp("s", "r", Literal(XSD_STRING), "o"), Bgp("y", "q", IRI, "x")}

AlgebraPatterns ==
    {GraphPattern("Union", Bgp("s", "p", IRI, "o"), right, NoneV) : right \in RightPatterns}
    \cup {GraphPattern("LeftJoin", Bgp("s", "p", IRI, "o"), right, NoneV) :
             right \in RightPatterns}
    \cup {GraphPattern("LeftJoin", Bgp("s", "p", IRI, "o"), right, Some(Equals("x", "x"))) :
             right \in {r \in RightPatterns : r.o = "x"}}

LoadTriples ==
    /\ last.kind # "Panic"
    /\ ops < MaxLoads
    /\ \E t \in AlgebraBatches :
        LET Done(r) == /\ SetStore(r.st)
                       /\ last' = [op |-> "add_triples_vec",
                                   kind |-> IF r.panic THEN "Panic" ELSE "Ok",
                                   err |-> None]
        IN  Done(add_triples_vec(Store(NoFail), <<t>>, next_uuid + 1))
    /\ next_uuid' = next_uuid + 1
    /\ ops' = ops + 1
    /\ UNCHANGED <<caching_folder, template_dataset, io_failures>>

\* a query whose triple patterns name buckets the store holds, in a run
\* where no input/output operation fails
QueryPatternOnce ==
    /\ last.kind # "Panic"
    /\ \E gp \in AlgebraPatterns, order \in Orders(DOMAIN df_map),
          nshards \in IF caching_folder # None THEN ShardCounts ELSE {1} :
        /\ Key(gp.left.pred, gp.left.object_type) \in DOMAIN df_map
        /\ Key(gp.right.pred, gp.right.object_type) \in DOMAIN df_map
        /\ LET Done(r) == /\ SetStore(r.st)
                          /\ last' = [op |-> "query", q |-> gp, kind |-> r.kind,
                                      err |-> r.err, v |-> r.v]
           IN  Done(query_pattern(Store(NoFail), gp, order, nshards))
    /\ UNCHANGED <<caching_folder, template_dataset, next_uuid, ops, io_failures>>

InitAlgebra ==
    /\ caching_folder \in {None, "folder"}
    /\ deduplicated = Triplestore_new(caching_folder).deduplicated
    /\ df_map = Triplestore_new(caching_folder).df_map
    /\ files = <<>>
    /\ next_path = 0
    /\ next_uuid = 0
    /\ contributed = <<>>
    /\ template_dataset = [templates |-> Templates, prefix_map |-> PrefixMap]
    /\ last = [op |-> "new", kind |-> "Ok", err |-> None]
    /\ ops = 0
    /\ io_failures = 0

NextAlgebra == LoadTriples \/ QueryPatternOnce

SpecAlgebra == InitAlgebra /\ [][NextAlgebra]_vars

\* the types a triple pattern gives its variables
TypesOf(tp) == [v \in {tp.s, tp.o} |-> IF v = tp.o THEN tp.object_type ELSE IRI]

SharedVariables(gp) == {gp.left.s, gp.left.o} \cap {gp.right.s, gp.right.o}

TypesConflict(gp) ==
    \E v \in SharedVariables(gp) : TypesOf(gp.left)[v] # TypesOf(gp.right)[v]

IsQuery(kind) == last.op = "query" /\ last.q.kind = kind

\* C22: a Union whose sides give one variable two different types makes the
\* query fail with the error InconsistentDatatypes, returned as an error
\* value and not as an abort; when the types agree the type map of the
\* result is the union of the two.
C22_UnionTypes ==
    IsQuery("Union") =>
        IF TypesConflict(last.q)
        THEN last.kind = "Err" /\ last.err = "InconsistentDatatypes"
        ELSE /\ last.kind = "Ok"
             /\ last.v.datatypes = InsertAll(TypesOf(last.q.left), TypesOf(last.q.right))

\* a Union whose sides have the same columns and agree on their types
\* succeeds with the union of the two type maps and the rows of both sides
C22_AgreeingTypesUnite ==
    (/\ IsQuery("Union") /\ ~TypesConflict(last.q)
     /\ <<last.q.left.s, last.q.left.o>> = <<last.q.right.s, last.q.right.o>>) =>
        /\ last.kind = "Ok"
        /\ last.v.datatypes = InsertAll(TypesOf(last.q.left), TypesOf(last.q.right))
        /\ last.v.columns = DOMAIN last.v.datatypes
        /\ last.v.mappings.rows
               = Bindings(Store(NoFail), last.q.left) \o Bindings(Store(NoFail), last.q.right)

\* a Union whose sides have different columns aborts when its plan is run
C22_DifferentColumnsAbort ==
    (/\ IsQuery("Union")
     /\ <<last.q.left.s, last.q.left.o>> # <<last.q.right.s, last.q.right.o>>) =>
        last.kind = "Panic"

\* a Union whose sides type a shared variable differently aborts
C22_ConflictAborts ==
    (IsQuery("Union") /\ TypesConflict(last.q)) => last.kind = "Panic"

\* C21: the type map of a LeftJoin is the left side's map extended by the
\* entries of the right side; a variable both sides type keeps the type of
\* the left side.
C21_LeftTypeKept ==
    (IsQuery("LeftJoin") /\ last.kind = "Ok") =>
        last.v.datatypes = InsertAll(TypesOf(last.q.right), TypesOf(last.q.left))

\* the type map of a LeftJoin has an entry for every variable of either
\* side; a variable the sides type differently has the type of the right side
C21_RightTypeKept ==
    (IsQuery("LeftJoin") /\ last.kind = "Ok") =>
        last.v.datatypes = InsertAll(TypesOf(last.q.left), TypesOf(last.q.right))

\* the store as the last call left it
StoreNow == Store(NoFail)

Occurrences(rows, r) == Cardinality({n \in 1..Len(rows) : rows[n] = r})

SameRows(a, b) ==
    /\ Len(a) = Len(b)
    /\ \A r \in Range(a) \cup Range(b) : Occurrences(a, r) = Occurrences(b, r)

\* the solutions of an OPTIONAL: every solution of the left pattern with each
\* binding of the right pattern that agrees with it on the shared variables
\* and passes the expression, and once, the right pattern's own variables
\* unbound, when there is no such binding
OptionalSolutions(gp) ==
    LET ls == Bindings(StoreNow, gp.left)
        rs == Bindings(StoreNow, gp.right)
        variables == {gp.left.s, gp.left.o, gp.right.s, gp.right.o}
        With(l, r) == [v \in variables |-> IF v \in DOMAIN l THEN l[v] ELSE r[v]]
        Alone(l) == [v \in variables |-> IF v \in DOMAIN l THEN l[v] ELSE Null]
        Of(l) ==
            LET Fits(r) ==
                    /\ \A v \in DOMAIN l \cap DOMAIN r : l[v] = r[v]
                    /\ gp.expression.some =>
                           With(l, r)[gp.expression.v.var] = gp.expression.v.value
                fitting == SelectSeq(rs, Fits)
            IN  IF fitting = <<>> THEN <<Alone(l)>>
                ELSE [n \in 1..Len(fitting) |-> With(l, fitting[n])]
    IN  flatten([n \in 1..Len(ls) |-> Of(ls[n])])

\* C27: a LeftJoin keeps every solution of its left side: its rows are each
\* left row with each compatible right binding that passes the expression,
\* or once with the right side's own variables null; there is no other row,
\* and the helper column of row ids is not in the output.
C27_LeftJoinKeepsLeft ==
    (IsQuery("LeftJoin") /\ last.kind = "Ok") =>
        /\ SameRows(last.v.mappings.rows, OptionalSolutions(last.q))
        /\ LeftJoinHelper \notin Range(last.v.mappings.cols)
        /\ Range(last.v.mappings.cols) = last.v.columns

\* a left join with an expression in which one left row has a passing right
\* binding and another has none
C27_Witness ==
    /\ IsQuery("LeftJoin")
    /\ last.kind = "Ok"
    /\ last.q.expression.some
    /\ \E r \in Range(last.v.mappings.rows) : r["x"] = Null
    /\ \E r \in Range(last.v.mappings.rows) : r["x"] # Null
    /\ Len(last.v.mappings.rows) = Len(Bindings(StoreNow, last.q.left))

====
